---------------------------- MODULE Spec2Model ----------------------------
(***************************************************************************)
(* Model of utils/backtesting.py of the bayesian-commodities-course:       *)
(*   - the fold generator (expanding_window_split, rolling_window_split,   *)
(*     create_folds),                                                      *)
(*   - TimeSeriesSplit (split, get_n_splits),                              *)
(*   - WalkForwardValidator (validate, summary, get_all_predictions),      *)
(*   - Backtester.run.                                                     *)
(* Five specifications share the module: SpecSplit (the fold generator as  *)
(* a pure function of its arguments), SpecCV (iterations of split on one   *)
(* TimeSeriesSplit), SpecValidate (one validate() call, fold by fold, and  *)
(* the reads of its result), SpecBacktest (two Backtester runs side by     *)
(* side, bar by bar) and SpecRerun (repeated run() calls on one            *)
(* Backtester).                                                            *)
(***************************************************************************)
EXTENDS Integers, Sequences, FiniteSets, TLC

VARIABLES
    \* ---- fold generator call (SpecSplit)
    sp_pc,      \* "args" | "returned" | "raised"
    sp_fn,      \* "none" | "expanding" | "rolling"
    sp_args,    \* [n, k, test_size, size, gap]; size is min_train_size / train_size
    sp_ret,     \* the returned list of TimeSeriesFold
    \* ---- WalkForwardValidator (SpecValidate)
    wf_cfg,     \* the validator's constructor fields and validate()'s data length / verbose
    wf_pc,      \* "idle" | "running" | "returned" | "raised"
    wf_folds,   \* create_folds' result: sequence of [train, test] row-position sets
    wf_i,       \* loop index of validate's for loop (0-based)
    wf_model,   \* the current model: None or Some(rows it was fitted on)
    wf_fits,    \* log of fit_func calls
    wf_preds,   \* log of predict_func calls
    wf_mets,    \* log of metric function calls
    wf_read,    \* outcome of the last summary() / get_all_predictions() call
    wf_completed, \* number of validate() calls that returned normally
    wf_results, \* the local list `results`
    results_,   \* WalkForwardValidator.results_
    wf_exc,     \* the exception validate() raised ("none" if none)
    wf_calls,   \* number of validate() calls made on the validator
    wf_before,  \* results_ as it stood when the current / last validate() call began
    wf_last,    \* None, or Some(what the last validate() call that returned has returned)
    \* ---- Backtester (SpecBacktest)
    bt_cfg,     \* prices, max_position, sizer, transaction cost of both runs
    bt_pc,      \* "idle" | "loop" | "done" ("off" when not in use)
    bt_i,       \* loop index of run's for loop
    bt_a,       \* run A: its signals, slippage and tracking arrays
    bt_b,       \* run B: same prices, costs and sizer; own signals and slippage
    bt_runs,    \* number of run() calls made on backtester A
    bt_results_, \* backtester A's results_: None, or the table of its last run
    bt_returned, \* the tables A's run() calls returned to the caller, in call order
    bt_read,    \* outcome of the last Backtester.summary() call on backtester A
    \* ---- TimeSeriesSplit (SpecCV)
    cv_cfg,     \* the splitter's constructor fields
    cv_n,       \* len(X)
    cv_pc,      \* "ready" ("off" when not in use)
    cv_runs,    \* what each split(X) iteration so far yielded, in call order
    cv_count,   \* None, or Some(what get_n_splits() returned)
    \* ---- metric and sizing functions (SpecMetrics)
    fx_pc,      \* "args" | "returned" | "raised" ("off" when not in use)
    fx_args,    \* the function called and its arguments
    fx_ret      \* what the call returned

spVars == <<sp_pc, sp_fn, sp_args, sp_ret>>
wfVars == <<wf_cfg, wf_pc, wf_folds, wf_i, wf_model, wf_fits, wf_preds, wf_mets,
            wf_read, wf_completed, wf_results, results_, wf_exc,
            wf_calls, wf_before, wf_last>>
btVars == <<bt_cfg, bt_pc, bt_i, bt_a, bt_b, bt_runs, bt_results_, bt_returned, bt_read>>
cvVars == <<cv_cfg, cv_n, cv_pc, cv_runs, cv_count>>
fxVars == <<fx_pc, fx_args, fx_ret>>
vars == <<spVars, wfVars, btVars, cvVars, fxVars>>

-----------------------------------------------------------------------------
(* Bounds of the model.                                                     *)
MaxSamples == 7     \* largest sequence length n
MaxFolds == 3       \* largest n_folds
MaxTestSize == 3    \* largest test_size
MaxGap == 2         \* largest gap

(* Optional[int]: None is the empty set, a value v is {v}.                  *)
None == {}
Some(v) == {v}
TheValue(opt) == CHOOSE v \in opt : TRUE

Min(a, b) == IF a < b THEN a ELSE b
Max(a, b) == IF a > b THEN a ELSE b

-----------------------------------------------------------------------------
(* TIME SERIES SPLITS                                                       *)

TimeSeriesFold(i, a, b, c, d) ==
    [fold_id |-> i, train_start |-> a, train_end |-> b,
     test_start |-> c, test_end |-> d]

(* min_train_size defaults to n_samples // (n_folds + 1).                   *)
MinTrainSize(n, k, mts) ==
    IF mts = None THEN n \div (k + 1) ELSE TheValue(mts)

(* A variant of ExpandingRaises that also rejects an exact fit.             *)
ExpandingRaisesOnExactFit(n, k, ts, mts, gap) ==
    MinTrainSize(n, k, mts) + k * ts + gap * k >= n

(* The guard of the ValueError.                                             *)
ExpandingRaises(n, k, ts, mts, gap) ==
    MinTrainSize(n, k, mts) + k * ts + gap * k > n

(* A variant of ExpandingStep that forgets to share the remaining samples   *)
(* among the folds.                                                         *)
ExpandingStepUndivided(n, k, ts, mts, gap) ==
    LET remaining == n - MinTrainSize(n, k, mts) - k * ts - gap * k
    IN  IF k > 1 THEN remaining ELSE 0

ExpandingStep(n, k, ts, mts, gap) ==
    LET remaining == n - MinTrainSize(n, k, mts) - k * ts - gap * k
    IN  IF k > 1 THEN remaining \div k ELSE 0

ExpandingFold(i, n, k, ts, mts, gap) ==
    LET train_end == MinTrainSize(n, k, mts) + ExpandingStep(n, k, ts, mts, gap) * (i + 1)
        test_start == train_end + gap
        test_end == test_start + ts
    IN  TimeSeriesFold(i, 0, train_end, test_start, test_end)

(* The call's outcome: raised, or the list of folds (1-based sequence whose *)
(* element i+1 is the fold with fold_id i).                                 *)
expanding_window_split(n, k, ts, mts, gap) ==
    IF ExpandingRaises(n, k, ts, mts, gap)
    THEN [raised |-> TRUE, folds |-> <<>>]
    ELSE [raised |-> FALSE,
          folds |-> [j \in 1..Max(k, 0) |-> ExpandingFold(j - 1, n, k, ts, mts, gap)]]

RollingStep(n, k, train, ts, gap) ==
    IF k > 1 THEN (n - train - ts - gap) \div (k - 1) ELSE 0

(* test_end = min(test_start + test_size, n_samples)                        *)
RollingTestEnd(test_start, ts, n) == Min(test_start + ts, n)

RollingFold(i, n, k, train, ts, gap) ==
    LET train_start == RollingStep(n, k, train, ts, gap) * i
        train_end == train_start + train
        test_start == train_end + gap
        test_end == RollingTestEnd(test_start, ts, n)
    IN  TimeSeriesFold(i, train_start, train_end, test_start, test_end)

(* The for loop with its `if test_end > n_samples: break`.                  *)
RECURSIVE RollingLoop(_, _, _, _, _, _, _)
RollingLoop(i, folds, n, k, train, ts, gap) ==
    IF i >= k THEN folds
    ELSE LET f == RollingFold(i, n, k, train, ts, gap)
         IN  IF f.test_end > n THEN folds
             ELSE RollingLoop(i + 1, Append(folds, f), n, k, train, ts, gap)

rolling_window_split(n, k, train, ts, gap) ==
    [raised |-> FALSE, folds |-> RollingLoop(0, <<>>, n, k, train, ts, gap)]

(* rolling_window_split's default train_size.                               *)
DefaultTrainSize == 100

-----------------------------------------------------------------------------
(* The arguments of one call of a fold generator.                           *)

SplitArgs ==
    [n : 0..MaxSamples, k : 0..MaxFolds, test_size : 1..MaxTestSize,
     size : {None} \cup {Some(v) : v \in 0..(MaxSamples + 1)}, gap : 0..MaxGap]

CallExpanding ==
    /\ sp_pc = "args"
    /\ LET a == sp_args
           r == expanding_window_split(a.n, a.k, a.test_size, a.size, a.gap)
       IN  /\ sp_pc' = IF r.raised THEN "raised" ELSE "returned"
           /\ sp_ret' = r.folds
    /\ sp_fn' = "expanding"
    /\ UNCHANGED <<sp_args, wfVars, btVars, cvVars, fxVars>>

CallRolling ==
    /\ sp_pc = "args"
    /\ LET a == sp_args
           train == IF a.size = None THEN DefaultTrainSize ELSE TheValue(a.size)
           r == rolling_window_split(a.n, a.k, train, a.test_size, a.gap)
       IN  /\ sp_pc' = IF r.raised THEN "raised" ELSE "returned"
           /\ sp_ret' = r.folds
    /\ sp_fn' = "rolling"
    /\ UNCHANGED <<sp_args, wfVars, btVars, cvVars, fxVars>>

-----------------------------------------------------------------------------
(* create_folds: positional slicing of the data by each fold.               *)

(* Python's slice.indices for one bound of data.iloc[start:stop]: a         *)
(* negative bound counts from the end, and both are clamped to [0, n].      *)
SliceBound(v, n) == IF v < 0 THEN Max(v + n, 0) ELSE Min(v, n)

(* The row positions selected by data.iloc[slice(start, stop)], len = n.    *)
ILocRows(start, stop, n) ==
    {p \in 0..(n - 1) : SliceBound(start, n) <= p /\ p < SliceBound(stop, n)}

(* create_folds with an integer test_size (the only kind validate's         *)
(* test_size: int hands it): test_samples = int(test_size).                 *)
create_folds(n, method, n_folds, test_size, train_size, gap) ==
    LET r == IF method = "expanding"
             THEN expanding_window_split(n, n_folds, test_size, None, gap)
             ELSE LET ts == IF train_size = None THEN n \div 2 ELSE TheValue(train_size)
                  IN  rolling_window_split(n, n_folds, ts, test_size, gap)
    IN  [raised |-> r.raised,
         folds |-> [j \in 1..Len(r.folds) |->
                     [train |-> ILocRows(r.folds[j].train_start, r.folds[j].train_end, n),
                      test |-> ILocRows(r.folds[j].test_start, r.folds[j].test_end, n)]]]

-----------------------------------------------------------------------------
(* TimeSeriesSplit: the cross-validator interface over the fold generator.  *)

MaxSplitCalls == 2  \* split(X) iterations run on one TimeSeriesSplit

(* `self.train_size or n // 2`: None and 0 are both falsy.                  *)
TrainSizeOrDefault(train_size, n) ==
    IF train_size = None \/ train_size = Some(0) THEN n \div 2 ELSE TheValue(train_size)

(* A variant of ARange that includes its stop value.                        *)
ARangeInclusive(start, stop) == [j \in 1..Max(stop - start + 1, 0) |-> start + j - 1]

(* np.arange(start, stop): start, start + 1, ..., stop - 1; empty when      *)
(* stop <= start.                                                           *)
ARange(start, stop) == [j \in 1..Max(stop - start, 0) |-> start + j - 1]

(* The folds split(X) iterates over, for len(X) = n.                        *)
SplitFolds(cfg, n) ==
    IF cfg.method = "expanding"
    THEN expanding_window_split(n, cfg.n_splits, cfg.test_size, None, cfg.gap)
    ELSE rolling_window_split(n, cfg.n_splits, TrainSizeOrDefault(cfg.train_size, n),
                              cfg.test_size, cfg.gap)

(* One whole iteration of split(X): the pairs it yields, or the ValueError  *)
(* of the fold generator, raised before the first pair.                     *)
SplitPairs(cfg, n) ==
    LET r == SplitFolds(cfg, n)
    IN  [raised |-> r.raised,
         pairs |-> [j \in 1..Len(r.folds) |->
                      [train |-> ARange(r.folds[j].train_start, r.folds[j].train_end),
                       test |-> ARange(r.folds[j].test_start, r.folds[j].test_end)]]]

SplitterConfigs ==
    [n_splits : 0..MaxFolds, test_size : 1..MaxTestSize, gap : 0..MaxGap,
     method : {"expanding", "rolling"},
     train_size : {None} \cup {Some(v) : v \in 0..(MaxSamples + 1)}]

(* list(splitter.split(X)) with len(X) = cv_n.                              *)
Split ==
    /\ cv_pc = "ready"
    /\ Len(cv_runs) < MaxSplitCalls
    /\ cv_runs' = Append(cv_runs, SplitPairs(cv_cfg, cv_n))
    /\ UNCHANGED <<cv_cfg, cv_n, cv_pc, cv_count, spVars, wfVars, btVars, fxVars>>

(* splitter.get_n_splits()                                                  *)
GetNSplits ==
    /\ cv_pc = "ready"
    /\ cv_count = None
    /\ cv_count' = Some(cv_cfg.n_splits)
    /\ UNCHANGED <<cv_cfg, cv_n, cv_pc, cv_runs, spVars, wfVars, btVars, fxVars>>

-----------------------------------------------------------------------------
(* WALK-FORWARD VALIDATOR                                                   *)

SetMin(S) == CHOOSE x \in S : \A y \in S : x <= y
SetMax(S) == CHOOSE x \in S : \A y \in S : x >= y

(* `if self.refit or model is None`                                         *)
MustFit(refit, model) == refit \/ model = None

(* The model a fit_func call returns, known by the rows it was fitted on.   *)
FitModel(train) == Some(train)

(* What the caller's fit_func returns: a model handle, or None (a fit_func  *)
(* that trains an object of its own and has no return statement).           *)
FitReturns == {"model", "None"}
FitReturn(train, fit_returns) == IF fit_returns = "None" THEN None ELSE FitModel(train)

(* train_data.index[0] / test_data.index[0] raise IndexError on an empty    *)
(* slice: in the verbose prints and when the FoldResult is built.           *)
IndexRaises(fold) == fold.train = {} \/ fold.test = {}

(* `metric_funcs = {'MAE': ..., 'RMSE': ...}`: the metrics of a run, in     *)
(* the dict's order.                                                        *)
MetricOrder == <<"MAE", "RMSE">>
MetricNames == {MetricOrder[j] : j \in 1..Len(MetricOrder)}

(* A recorded metric: np.nan, or the value func(actual, pred) computed on   *)
(* the rows of a test slice.                                                *)
NaNMetric == [nan |-> TRUE, rows |-> {}]
MetricValue(name, test_rows) == [nan |-> FALSE, rows |-> test_rows]

(* A variant of RecordedMetric without the except branch's np.nan.          *)
RecordedMetricUnguarded(raised, value) == value

(* try: metrics[name] = func(actual, pred)                                  *)
(* except Exception: warnings.warn(...); metrics[name] = np.nan             *)
RecordedMetric(raised, value) == IF raised THEN NaNMetric ELSE value

(* A variant of Propagates in which validate swallows what fit_func and     *)
(* predict_func raise.                                                      *)
PropagatesNever(raised) == FALSE

(* fit_func and predict_func are called outside any try block: what they    *)
(* raise leaves validate.                                                   *)
Propagates(raised) == raised

(* What the caller's functions do in one fold: fit_func or predict_func     *)
(* raises, or neither does and the metric functions in `failing` raise.     *)
(* Functions that never raise have the one outcome without a failure.       *)
FoldOutcomes(may_raise) ==
    IF may_raise
    THEN [raises : {"none"}, failing : SUBSET MetricNames]
         \cup [raises : {"fit", "predict"}, failing : {{}}]
    ELSE [raises : {"none"}, failing : {{}}]

(* The metric function calls of one fold, in dict order.                    *)
MetricCalls(i, failing) ==
    [j \in 1..Len(MetricOrder) |->
        [fold |-> i, name |-> MetricOrder[j], raised |-> MetricOrder[j] \in failing]]

(* The object predict_func returns: an ndarray, a Series, or a DataFrame    *)
(* with a 'prediction' column and possibly an 'actual' column of its own.   *)
PredictReturns == {"ndarray", "Series", "DataFrame", "DataFrame+actual"}
NoObject == [kind |-> "none", columns |-> {}]
ReturnedObject(predict_returns) ==
    CASE predict_returns = "DataFrame" ->
            [kind |-> "DataFrame", columns |-> {"prediction"}]
      [] predict_returns = "DataFrame+actual" ->
            [kind |-> "DataFrame", columns |-> {"prediction", "actual"}]
      [] OTHER -> [kind |-> predict_returns, columns |-> {}]

(* The caller's object after lines 429-438. An ndarray is wrapped in a new  *)
(* DataFrame and a Series is converted by to_frame, so these keep their     *)
(* state; a DataFrame is used as it is, and                                 *)
(* `predictions['actual'] = test_data[target_col].values` adds the column   *)
(* to that very object when it lacks one.                                   *)
CallerObjectAfter(obj) ==
    IF obj.kind = "DataFrame"
    THEN [obj EXCEPT !.columns = obj.columns \cup {"actual"}]
    ELSE obj

FoldResult(i, fold, metrics) ==
    [fold_id |-> i,
     train_start |-> SetMin(fold.train), train_end |-> SetMax(fold.train),
     test_start |-> SetMin(fold.test), test_end |-> SetMax(fold.test),
     predictions |-> fold.test,
     metrics |-> metrics]

(* The validators and validate() calls of the model: every fold geometry    *)
(* with caller functions that never raise and return a model and an         *)
(* ndarray; and, on the longest data with test_size = 1, caller functions   *)
(* of every kind.                                                           *)
ValidatorConfigs ==
    [n_folds : 0..MaxFolds, test_size : 1..MaxTestSize, gap : 0..MaxGap,
     method : {"expanding", "rolling"},
     train_size : {None} \cup {Some(v) : v \in 1..(MaxSamples + 1)},
     refit : BOOLEAN, n : 0..MaxSamples, verbose : BOOLEAN,
     may_raise : {FALSE}, fit_returns : {"model"}, predict_returns : {"ndarray"}]
    \cup
    [n_folds : 0..MaxFolds, test_size : {1}, gap : {0},
     method : {"expanding", "rolling"},
     train_size : {None},
     refit : BOOLEAN, n : {MaxSamples}, verbose : BOOLEAN,
     may_raise : BOOLEAN, fit_returns : FitReturns, predict_returns : PredictReturns]

NoRead == [op |-> "none", raised |-> FALSE, value |-> <<>>]

(* A variant of StoredOnEntry that empties results_ when validate() begins.  *)
ClearedOnEntry(stored) == <<>>

(* results_ past validate()'s prologue: it is not assigned there.           *)
StoredOnEntry(stored) == stored

(* validate() up to the loop: create_folds, results = [], model = None.     *)
ValidateStart ==
    /\ wf_pc = "idle"
    /\ LET c == wf_cfg
           r == create_folds(c.n, c.method, c.n_folds, c.test_size, c.train_size, c.gap)
       IN  /\ wf_pc' = IF r.raised THEN "raised" ELSE "running"
           /\ wf_exc' = IF r.raised THEN "ValueError" ELSE "none"
           /\ wf_folds' = r.folds
    /\ wf_i' = 0
    /\ wf_model' = None
    /\ wf_fits' = <<>>
    /\ wf_preds' = <<>>
    /\ wf_mets' = <<>>
    /\ wf_results' = <<>>
    /\ wf_read' = NoRead
    /\ wf_calls' = wf_calls + 1
    /\ wf_before' = results_
    /\ results_' = StoredOnEntry(results_)
    /\ UNCHANGED <<wf_cfg, wf_completed, wf_last, spVars, btVars, cvVars, fxVars>>

(* One iteration of the loop over the folds.                                *)
ValidateFold ==
    /\ wf_pc = "running"
    /\ wf_i < Len(wf_folds)
    /\ \E out \in FoldOutcomes(wf_cfg.may_raise) :
        LET fold == wf_folds[wf_i + 1]
            fit == MustFit(wf_cfg.refit, wf_model)
            model == IF fit THEN FitReturn(fold.train, wf_cfg.fit_returns) ELSE wf_model
            model_rows == IF fit THEN fold.train ELSE TheValue(wf_model)
            fits == IF fit
                    THEN Append(wf_fits, [fold |-> wf_i, train |-> fold.train,
                                          raised |-> out.raises = "fit"])
                    ELSE wf_fits
            returned == IF out.raises = "predict"
                        THEN NoObject
                        ELSE ReturnedObject(wf_cfg.predict_returns)
            preds == Append(wf_preds,
                            [fold |-> wf_i, model |-> model, model_rows |-> model_rows,
                             test_rows |-> fold.test, raised |-> out.raises = "predict",
                             returned |-> returned,
                             caller_object |-> CallerObjectAfter(returned)])
            metrics == [name \in MetricNames |->
                          RecordedMetric(name \in out.failing, MetricValue(name, fold.test))]
        IN  /\ out.raises = "fit" => fit
            /\ IF wf_cfg.verbose /\ IndexRaises(fold)
               THEN \* the prints raise before fit_func is called
                    /\ wf_pc' = "raised"
                    /\ wf_exc' = "IndexError"
                    /\ UNCHANGED <<wf_i, wf_model, wf_fits, wf_preds, wf_mets, wf_results>>
               ELSE IF Propagates(fit /\ out.raises = "fit")
               THEN \* fit_func raised: `model = ...` is not reached
                    /\ wf_pc' = "raised"
                    /\ wf_exc' = "FitError"
                    /\ wf_fits' = fits
                    /\ UNCHANGED <<wf_i, wf_model, wf_preds, wf_mets, wf_results>>
               ELSE IF Propagates(out.raises = "predict")
               THEN \* predict_func raised
                    /\ wf_pc' = "raised"
                    /\ wf_exc' = "PredictError"
                    /\ wf_fits' = fits
                    /\ wf_model' = model
                    /\ wf_preds' = preds
                    /\ UNCHANGED <<wf_i, wf_mets, wf_results>>
               ELSE /\ wf_fits' = fits
                    /\ wf_model' = model
                    /\ wf_preds' = preds
                    /\ wf_mets' = wf_mets \o MetricCalls(wf_i, out.failing)
                    /\ IF IndexRaises(fold)
                       THEN \* FoldResult(train_start=train_data.index[0], ...) raises
                            /\ wf_pc' = "raised"
                            /\ wf_exc' = "IndexError"
                            /\ UNCHANGED <<wf_i, wf_results>>
                       ELSE /\ wf_results' = Append(wf_results,
                                                    FoldResult(wf_i, fold, metrics))
                            /\ wf_i' = wf_i + 1
                            /\ UNCHANGED <<wf_pc, wf_exc>>
    /\ UNCHANGED <<wf_cfg, wf_folds, wf_read, wf_completed, results_,
                   wf_calls, wf_before, wf_last, spVars, btVars, cvVars, fxVars>>

(* A variant of StoredOnReturn that adds the run's results to the stored    *)
(* ones.                                                                    *)
AccumulatedOnReturn(stored, results) == stored \o results

(* `self.results_ = results`                                                *)
StoredOnReturn(stored, results) == results

(* self.results_ = results; return results                                  *)
ValidateReturn ==
    /\ wf_pc = "running"
    /\ wf_i = Len(wf_folds)
    /\ results_' = StoredOnReturn(results_, wf_results)
    /\ wf_pc' = "returned"
    /\ wf_completed' = wf_completed + 1
    /\ wf_last' = Some(wf_results)
    /\ UNCHANGED <<wf_cfg, wf_folds, wf_i, wf_model, wf_fits, wf_preds, wf_mets, wf_read,
                   wf_results, wf_exc, wf_calls, wf_before, spVars, btVars, cvVars, fxVars>>

(* A variant of NoResults that lets an empty collection through.            *)
NoResultsNever(results) == FALSE

(* `if not self.results_: raise ValueError("No results available. ...")`:   *)
(* an empty list is falsy.                                                  *)
NoResults(results) == results = <<>>

(* summary(): metrics_df = pd.DataFrame([r.metrics for r in results_]),     *)
(* then Mean, Std, Min, Max and Median of each column. A statistic is       *)
(* known by its name and the column it is taken over.                       *)
SummaryStats == {"Mean", "Std", "Min", "Max", "Median"}
SummaryTable(results) ==
    [name \in MetricNames |->
        [stats |-> SummaryStats,
         column |-> [j \in 1..Len(results) |-> results[j].metrics[name]]]]

(* The rows of a predictions table, in index order.                         *)
RECURSIVE SortedRows(_)
SortedRows(rows) ==
    IF rows = {} THEN <<>> ELSE <<SetMin(rows)>> \o SortedRows(rows \ {SetMin(rows)})

(* df = result.predictions.copy(); df['fold'] = result.fold_id              *)
TaggedRows(result) ==
    LET rows == SortedRows(result.predictions)
    IN  [j \in 1..Len(rows) |-> [row |-> rows[j], fold |-> result.fold_id]]

(* dfs: one tagged table per FoldResult, in the order of results_.          *)
PredictionBlocks(results) == [j \in 1..Len(results) |-> TaggedRows(results[j])]

(* pd.concat(dfs)                                                           *)
RECURSIVE Concat(_)
Concat(dfs) == IF dfs = <<>> THEN <<>> ELSE Head(dfs) \o Concat(Tail(dfs))

MaxValidateCalls == 2   \* validate() calls on one validator

(* A further validate() call on the same validator, on data of any length,  *)
(* up to the loop.                                                          *)
ValidateAgain ==
    /\ wf_pc \in {"returned", "raised"}
    /\ wf_calls < MaxValidateCalls
    /\ \E n \in {MaxSamples - 1, MaxSamples} :
          LET c == [wf_cfg EXCEPT !.n = n]
              r == create_folds(c.n, c.method, c.n_folds, c.test_size, c.train_size, c.gap)
          IN  /\ wf_cfg' = c
              /\ wf_pc' = IF r.raised THEN "raised" ELSE "running"
              /\ wf_exc' = IF r.raised THEN "ValueError" ELSE "none"
              /\ wf_folds' = r.folds
    /\ wf_i' = 0
    /\ wf_model' = None
    /\ wf_fits' = <<>>
    /\ wf_preds' = <<>>
    /\ wf_mets' = <<>>
    /\ wf_results' = <<>>
    /\ wf_read' = NoRead
    /\ wf_calls' = wf_calls + 1
    /\ wf_before' = results_
    /\ results_' = StoredOnEntry(results_)
    /\ UNCHANGED <<wf_completed, wf_last, spVars, btVars, cvVars, fxVars>>

(* summary() on a validator that is not inside validate().                  *)
Summary ==
    /\ wf_pc \in {"idle", "returned", "raised"}
    /\ wf_read' = IF NoResults(results_)
                  THEN [op |-> "summary", raised |-> TRUE, value |-> <<>>]
                  ELSE [op |-> "summary", raised |-> FALSE,
                        value |-> SummaryTable(results_)]
    /\ UNCHANGED <<wf_cfg, wf_pc, wf_folds, wf_i, wf_model, wf_fits, wf_preds, wf_mets,
                   wf_completed, wf_results, results_, wf_exc,
                   wf_calls, wf_before, wf_last, spVars, btVars, cvVars, fxVars>>

(* get_all_predictions() on a validator that is not inside validate().      *)
GetAllPredictions ==
    /\ wf_pc \in {"idle", "returned", "raised"}
    /\ wf_read' = IF NoResults(results_)
                  THEN [op |-> "get_all_predictions", raised |-> TRUE, value |-> <<>>]
                  ELSE [op |-> "get_all_predictions", raised |-> FALSE,
                        value |-> Concat(PredictionBlocks(results_))]
    /\ UNCHANGED <<wf_cfg, wf_pc, wf_folds, wf_i, wf_model, wf_fits, wf_preds, wf_mets,
                   wf_completed, wf_results, results_, wf_exc,
                   wf_calls, wf_before, wf_last, spVars, btVars, cvVars, fxVars>>

-----------------------------------------------------------------------------
(* Float values, kept exact: a finite value is a fraction <<num, den>> in   *)
(* lowest terms with den > 0; <<1, 0>> is +inf, <<-1, 0>> is -inf and       *)
(* <<0, 0>> is NaN, with IEEE-754's rules for them.                         *)

Abs(a) == IF a < 0 THEN -a ELSE a
Sign(a) == IF a < 0 THEN -1 ELSE IF a > 0 THEN 1 ELSE 0

RECURSIVE GCD(_, _)
GCD(a, b) == IF b = 0 THEN a ELSE GCD(b, a % b)

Norm(num, den) == LET g == GCD(Abs(num), den) IN <<num \div g, den \div g>>
R(a) == <<a, 1>>
NaN == <<0, 0>>
IsNaN(x) == x = NaN
IsInf(x) == x[2] = 0 /\ x[1] # 0
IsFinite(x) == x[2] # 0

RNeg(x) == <<-x[1], x[2]>>
RAbs(x) == <<Abs(x[1]), x[2]>>
RAdd(x, y) ==
    IF IsNaN(x) \/ IsNaN(y) THEN NaN
    ELSE IF IsInf(x) THEN (IF IsInf(y) /\ y # x THEN NaN ELSE x)
    ELSE IF IsInf(y) THEN y
    ELSE Norm(x[1] * y[2] + y[1] * x[2], x[2] * y[2])
RSub(x, y) == RAdd(x, RNeg(y))
RMul(x, y) ==
    IF IsNaN(x) \/ IsNaN(y) THEN NaN
    ELSE IF IsInf(x) \/ IsInf(y)
         THEN (IF x[1] = 0 \/ y[1] = 0 THEN NaN ELSE <<Sign(x[1]) * Sign(y[1]), 0>>)
    ELSE Norm(x[1] * y[1], x[2] * y[2])
RDiv(x, y) ==
    IF IsNaN(x) \/ IsNaN(y) THEN NaN
    ELSE IF IsInf(y) THEN (IF IsInf(x) THEN NaN ELSE R(0))
    ELSE IF y[1] = 0 THEN (IF x[1] = 0 THEN NaN ELSE <<Sign(x[1]), 0>>)
    ELSE RMul(x, <<Sign(y[1]) * y[2], Abs(y[1])>>)
RLess(x, y) ==
    /\ ~IsNaN(x)
    /\ ~IsNaN(y)
    /\ IF IsFinite(x) /\ IsFinite(y) THEN x[1] * y[2] < y[1] * x[2]
       ELSE x # y /\ (x = <<-1, 0>> \/ y = <<1, 0>>)
RLeq(x, y) == RLess(x, y) \/ (x = y /\ ~IsNaN(x))
RMaximum(x, y) == IF IsNaN(x) \/ IsNaN(y) THEN NaN ELSE IF RLess(x, y) THEN y ELSE x
RMinimum(x, y) == IF IsNaN(x) \/ IsNaN(y) THEN NaN ELSE IF RLess(y, x) THEN y ELSE x

(* np.clip(x, lo, hi) = minimum(maximum(x, lo), hi); NaN stays NaN.         *)
Clip(x, lo, hi) == RMinimum(RMaximum(x, lo), hi)

-----------------------------------------------------------------------------
(* BACKTESTER                                                               *)

NumBars == 3        \* len(prices)

(* `abs(position_change) > 0.001`                                           *)
TradeThreshold == <<1, 1000>>

(* The position sizers a caller may pass. "default" is run's own            *)
(* lambda s, p, v: s * max_position; "by_price" asks for signal / (2*price), *)
(* a target that moves with the price; "unbounded" returns +-inf, or NaN    *)
(* for a flat signal.                                                       *)
Sizers == {"default", "by_price", "unbounded"}

PositionSizer(sizer, signal, price, value, max_position) ==
    CASE sizer = "default" -> RMul(signal, max_position)
      [] sizer = "by_price" -> RDiv(signal, RMul(R(2), price))
      [] OTHER -> IF signal[1] = 0 THEN NaN ELSE <<Sign(signal[1]), 0>>

(* A variant of SignalIndex that reads the signal of the bar being traded.  *)
SignalIndexSameBar(i) == i

(* `signal = signals.iloc[i-1]  # Signal from previous day`                 *)
SignalIndex(i) == i - 1

(* A variant of ClipTarget that bounds long positions only.                 *)
ClipTargetLongOnly(target, max_position) ==
    IF IsNaN(target) THEN NaN ELSE RMinimum(target, max_position)

(* target_position = np.clip(target_position, -max_position, max_position)  *)
ClipTarget(target, max_position) == Clip(target, RNeg(max_position), max_position)

(* A variant of IsTrade that also trades at the threshold itself.           *)
IsTradeFromThreshold(position_change) == RLeq(TradeThreshold, RAbs(position_change))

(* `if abs(position_change) > 0.001:  # Trade threshold`                    *)
IsTrade(position_change) == RLess(TradeThreshold, RAbs(position_change))

(* execution_price: price * (1 + slippage) for a buy, price * (1 - slippage) *)
(* for a sell.                                                              *)
ExecutionPrice(price, position_change, slippage) ==
    IF RLess(R(0), position_change)
    THEN RMul(price, RAdd(R(1), slippage))
    ELSE RMul(price, RSub(R(1), slippage))

(* A variant of CashAfterTrade that charges the cost on the signed traded   *)
(* value, so that a sale is credited the cost instead of paying it.         *)
CashAfterTradeSignedCost(cash_prev, position_change, equity_prev, execution_price, transaction_cost) ==
    LET traded == RMul(position_change, equity_prev)
    IN  RSub(RSub(cash_prev, traded), RMul(traded, transaction_cost))

(* A variant of CashAfterTrade that charges the cost of a trade but not     *)
(* the value traded.                                                        *)
CashAfterTradeCostOnly(cash_prev, position_change, equity_prev, execution_price, transaction_cost) ==
    LET trade_value == RAbs(RMul(position_change, equity_prev))
    IN  RSub(cash_prev, RMul(trade_value, transaction_cost))

(* cash[i] = cash[i-1] - position_change * equity[i-1] - trade_cost         *)
CashAfterTrade(cash_prev, position_change, equity_prev, execution_price, transaction_cost) ==
    LET trade_value == RAbs(RMul(position_change, equity_prev))
        trade_cost == RMul(trade_value, transaction_cost)
    IN  RSub(RSub(cash_prev, RMul(position_change, equity_prev)), trade_cost)

(* A variant of Equity that values the position without the price move.     *)
EquityWithoutPriceMove(cash_i, position_i, equity_prev, price, prev_price) ==
    RAdd(cash_i, RMul(position_i, equity_prev))

(* position_value = positions[i] * equity[i-1] * (price / prev_price);      *)
(* equity[i] = cash[i] + position_value                                     *)
Equity(cash_i, position_i, equity_prev, price, prev_price) ==
    RAdd(cash_i, RMul(RMul(position_i, equity_prev), RDiv(price, prev_price)))

(* returns[i] = (equity[i] / equity[i-1]) - 1                               *)
Return(equity_i, equity_prev) == RSub(RDiv(equity_i, equity_prev), R(1))

(* The tracking arrays after `equity[0] = cash[0] = initial_capital;        *)
(* positions[0] = 0` (np.zeros(n) each); sequence element t+1 is array      *)
(* element t.                                                               *)
InitRun(signals, slippage, n, initial_capital) ==
    [signals |-> signals,
     slippage |-> slippage,
     equity |-> [t \in 1..n |-> IF t = 1 THEN initial_capital ELSE R(0)],
     positions |-> [t \in 1..n |-> R(0)],
     cash |-> [t \in 1..n |-> IF t = 1 THEN initial_capital ELSE R(0)],
     returns |-> [t \in 1..n |-> R(0)],
     trades |-> [t \in 1..n |-> 0],
     execution_price |-> [t \in 1..n |-> NaN]]

(* The body of `for i in range(1, n)` for array index i.                    *)
StepRun(run, i, cfg) ==
    LET price == R(cfg.prices[i + 1])
        prev_price == R(cfg.prices[i])
        signal == R(run.signals[SignalIndex(i) + 1])
        equity_prev == run.equity[i]
        target_position ==
            ClipTarget(PositionSizer(cfg.sizer, signal, price, equity_prev, cfg.max_position),
                       cfg.max_position)
        position_change == RSub(target_position, run.positions[i])
        trade == IsTrade(position_change)
        execution_price == ExecutionPrice(price, position_change, run.slippage)
        position_i == IF trade THEN target_position ELSE run.positions[i]
        cash_i == IF trade
                  THEN CashAfterTrade(run.cash[i], position_change, equity_prev,
                                      execution_price, cfg.transaction_cost)
                  ELSE run.cash[i]
        equity_i == Equity(cash_i, position_i, equity_prev, price, prev_price)
    IN  [run EXCEPT !.positions[i + 1] = position_i,
                    !.cash[i + 1] = cash_i,
                    !.trades[i + 1] = IF trade THEN 1 ELSE 0,
                    !.execution_price[i + 1] = IF trade THEN execution_price ELSE NaN,
                    !.equity[i + 1] = equity_i,
                    !.returns[i + 1] = Return(equity_i, equity_prev)]

(* `for i in range(1, n)` from index i to the end.                          *)
RECURSIVE RunLoop(_, _, _)
RunLoop(run, i, cfg) ==
    IF i < Len(cfg.prices) THEN RunLoop(StepRun(run, i, cfg), i + 1, cfg) ELSE run

(* The tracking arrays of one whole run() call.                             *)
RunArrays(cfg, signals, slippage) ==
    RunLoop(InitRun(signals, slippage, Len(cfg.prices), cfg.initial_capital), 1, cfg)

SignalValues == {-1, 0, 1}
SignalSeries == [1..NumBars -> SignalValues]

(* The next signal value in the cycle -1, 0, 1, -1.                         *)
NextSignal(v) == IF v = 1 THEN -1 ELSE v + 1

(* Series b is series a, or a with one period moved to the next signal      *)
(* value. Any two series that agree on every index < t are joined by a      *)
(* chain of such one-period changes at indices >= t, so these pairs decide  *)
(* what a run's state depends on.                                           *)
OnePeriodApart(a, b) ==
    \/ a = b
    \/ \E d \in 1..NumBars : b = [a EXCEPT ![d] = NextSignal(a[d])]

Slippages == {R(0), <<1, 20>>}

BacktestConfigs ==
    [prices : [1..NumBars -> {1, 2}],
     max_position : {<<1, 2>>, R(1)},
     sizer : Sizers,
     transaction_cost : {R(0), <<1, 10>>},
     initial_capital : {R(100)}]
    \cup
    [prices : [1..NumBars -> {1, 2}],
     max_position : {R(0)},
     sizer : Sizers,
     transaction_cost : {<<1, 10>>},
     initial_capital : {R(100)}]
    \cup
    \* a position limit equal to the trade threshold: targets of the default
    \* sizer are 0.001 away from a flat position
    [prices : [1..NumBars -> {1, 2}],
     max_position : {<<1, 1000>>},
     sizer : {"default"},
     transaction_cost : {<<1, 10>>},
     initial_capital : {R(100)}]

(* Where run() stands once array elements 0..i-1 are written: in the loop,  *)
(* or past it, with the results table built and returned.                   *)
AfterWriting(i, n) == IF i < n THEN "loop" ELSE "done"

MaxRuns == 2        \* run() calls on one Backtester instance

(* A variant of StartingCapital that starts from the equity the stored      *)
(* results ended with.                                                      *)
StartingCapitalCarriedOver(initial_capital, results) ==
    IF results = None
    THEN initial_capital
    ELSE TheValue(results).equity[Len(TheValue(results).equity)]

(* `equity[0] = self.initial_capital; cash[0] = self.initial_capital`:      *)
(* run() starts from the constructor's capital and reads nothing of         *)
(* self.results_.                                                           *)
StartingCapital(initial_capital, results) == initial_capital

(* The results DataFrame run() builds from the tracking arrays.             *)
ResultsTable(run, cfg) ==
    [price |-> cfg.prices,
     signal |-> run.signals,
     position |-> run.positions,
     cash |-> run.cash,
     equity |-> run.equity,
     returns |-> run.returns,
     trade |-> run.trades]

(* Backtester A's results_ and the caller's tables once array elements      *)
(* 0..i-1 of `run` are written: `self.results_ = results; return results`   *)
(* past the loop.                                                           *)
StoredAfterWriting(i, run, cfg, stored) ==
    IF AfterWriting(i, Len(cfg.prices)) = "done" THEN Some(ResultsTable(run, cfg)) ELSE stored
ReturnedAfterWriting(i, run, cfg, returned) ==
    IF AfterWriting(i, Len(cfg.prices)) = "done"
    THEN Append(returned, ResultsTable(run, cfg))
    ELSE returned

(* The first run() call, up to the loop: the tracking arrays and their      *)
(* element 0.                                                               *)
RunStart ==
    /\ bt_pc = "idle"
    /\ bt_a' = InitRun(bt_a.signals, bt_a.slippage, Len(bt_cfg.prices),
                       StartingCapital(bt_cfg.initial_capital, bt_results_))
    /\ bt_b' = InitRun(bt_b.signals, bt_b.slippage, Len(bt_cfg.prices), bt_cfg.initial_capital)
    /\ bt_i' = 1
    /\ bt_pc' = AfterWriting(1, Len(bt_cfg.prices))
    /\ bt_runs' = bt_runs + 1
    /\ bt_results_' = StoredAfterWriting(1, bt_a', bt_cfg, bt_results_)
    /\ bt_returned' = ReturnedAfterWriting(1, bt_a', bt_cfg, bt_returned)
    /\ bt_read' = NoRead
    /\ UNCHANGED <<bt_cfg, spVars, wfVars, cvVars, fxVars>>

(* A further run() call on the same instances with the same arguments, up   *)
(* to the loop.                                                             *)
RunAgain ==
    /\ bt_pc = "done"
    /\ bt_runs < MaxRuns
    /\ bt_a' = InitRun(bt_a.signals, bt_a.slippage, Len(bt_cfg.prices),
                       StartingCapital(bt_cfg.initial_capital, bt_results_))
    /\ bt_b' = InitRun(bt_b.signals, bt_b.slippage, Len(bt_cfg.prices), bt_cfg.initial_capital)
    /\ bt_i' = 1
    /\ bt_pc' = AfterWriting(1, Len(bt_cfg.prices))
    /\ bt_runs' = bt_runs + 1
    /\ bt_results_' = StoredAfterWriting(1, bt_a', bt_cfg, bt_results_)
    /\ bt_returned' = ReturnedAfterWriting(1, bt_a', bt_cfg, bt_returned)
    /\ bt_read' = NoRead
    /\ UNCHANGED <<bt_cfg, spVars, wfVars, cvVars, fxVars>>

(* One iteration of run()'s loop, in both runs; the last one returns.       *)
RunStep ==
    /\ bt_pc = "loop"
    /\ bt_i < Len(bt_cfg.prices)
    /\ bt_a' = StepRun(bt_a, bt_i, bt_cfg)
    /\ bt_b' = StepRun(bt_b, bt_i, bt_cfg)
    /\ bt_i' = bt_i + 1
    /\ bt_pc' = AfterWriting(bt_i + 1, Len(bt_cfg.prices))
    /\ bt_results_' = StoredAfterWriting(bt_i + 1, bt_a', bt_cfg, bt_results_)
    /\ bt_returned' = ReturnedAfterWriting(bt_i + 1, bt_a', bt_cfg, bt_returned)
    /\ UNCHANGED <<bt_cfg, bt_runs, bt_read, spVars, wfVars, cvVars, fxVars>>

-----------------------------------------------------------------------------
(* The specifications. Each runs one component; the other components'     *)
(* variables rest at fixed values.                                          *)

IdleSplitArgs == [n |-> 0, k |-> 0, test_size |-> 1, size |-> None, gap |-> 0]
IdleValidatorConfig ==
    [n_folds |-> 0, test_size |-> 1, gap |-> 0, method |-> "expanding",
     train_size |-> None, refit |-> TRUE, n |-> 0, verbose |-> FALSE,
     may_raise |-> FALSE, fit_returns |-> "model", predict_returns |-> "ndarray"]
IdleBacktestConfig ==
    [prices |-> <<>>, max_position |-> R(0), sizer |-> "default",
     transaction_cost |-> R(0), initial_capital |-> R(0)]
IdleRun == InitRun(<<>>, R(0), 0, R(0))
IdleCall == [fn |-> "none"]
IdleSplitterConfig ==
    [n_splits |-> 0, test_size |-> 1, gap |-> 0, method |-> "expanding", train_size |-> None]

(* SpecSplit: one call of a fold generator on arbitrary arguments.          *)
SplitInit ==
    /\ sp_pc = "args"
    /\ sp_fn = "none"
    /\ sp_args \in SplitArgs
    /\ sp_ret = <<>>
    /\ wf_cfg = IdleValidatorConfig
    /\ wf_pc = "off"
    /\ wf_folds = <<>>
    /\ wf_i = 0
    /\ wf_model = None
    /\ wf_fits = <<>>
    /\ wf_preds = <<>>
    /\ wf_mets = <<>>
    /\ wf_read = NoRead
    /\ wf_completed = 0
    /\ wf_results = <<>>
    /\ results_ = <<>>
    /\ wf_exc = "none"
    /\ wf_calls = 0
    /\ wf_before = <<>>
    /\ wf_last = None
    /\ bt_cfg = IdleBacktestConfig
    /\ bt_pc = "off"
    /\ bt_i = 0
    /\ bt_a = IdleRun
    /\ bt_b = IdleRun
    /\ bt_runs = 0
    /\ bt_results_ = None
    /\ bt_returned = <<>>
    /\ bt_read = NoRead
    /\ cv_cfg = IdleSplitterConfig
    /\ cv_n = 0
    /\ cv_pc = "off"
    /\ cv_runs = <<>>
    /\ cv_count = None
    /\ fx_pc = "off"
    /\ fx_args = IdleCall
    /\ fx_ret = <<>>

SplitNext == CallExpanding \/ CallRolling
SpecSplit == SplitInit /\ [][SplitNext]_vars

(* SpecValidate: WalkForwardValidator.__init__ (the fields, results_ = [])  *)
(* and one validate() call on data of length wf_cfg.n.                      *)
ValidateInit ==
    /\ sp_pc = "off"
    /\ sp_fn = "none"
    /\ sp_args = IdleSplitArgs
    /\ sp_ret = <<>>
    /\ wf_cfg \in ValidatorConfigs
    /\ wf_pc = "idle"
    /\ wf_folds = <<>>
    /\ wf_i = 0
    /\ wf_model = None
    /\ wf_fits = <<>>
    /\ wf_preds = <<>>
    /\ wf_mets = <<>>
    /\ wf_read = NoRead
    /\ wf_completed = 0
    /\ wf_results = <<>>
    /\ results_ = <<>>
    /\ wf_exc = "none"
    /\ wf_calls = 0
    /\ wf_before = <<>>
    /\ wf_last = None
    /\ bt_cfg = IdleBacktestConfig
    /\ bt_pc = "off"
    /\ bt_i = 0
    /\ bt_a = IdleRun
    /\ bt_b = IdleRun
    /\ bt_runs = 0
    /\ bt_results_ = None
    /\ bt_returned = <<>>
    /\ bt_read = NoRead
    /\ cv_cfg = IdleSplitterConfig
    /\ cv_n = 0
    /\ cv_pc = "off"
    /\ cv_runs = <<>>
    /\ cv_count = None
    /\ fx_pc = "off"
    /\ fx_args = IdleCall
    /\ fx_ret = <<>>

ValidateNext ==
    ValidateStart \/ ValidateFold \/ ValidateReturn \/ Summary \/ GetAllPredictions
SpecValidate == ValidateInit /\ [][ValidateNext]_vars

(* SpecRevalidate: WalkForwardValidator.__init__ and up to MaxValidateCalls *)
(* validate() calls on the validator, each on data of its own length, with  *)
(* summary() and get_all_predictions() calls in between.                    *)
RevalidateInit ==
    /\ sp_pc = "off"
    /\ sp_fn = "none"
    /\ sp_args = IdleSplitArgs
    /\ sp_ret = <<>>
    /\ wf_cfg \in [n_folds : 0..2, test_size : {1}, gap : {0},
                   method : {"expanding", "rolling"}, train_size : {None},
                   refit : BOOLEAN, n : {MaxSamples - 1, MaxSamples}, verbose : {FALSE},
                   may_raise : BOOLEAN, fit_returns : {"model"},
                   predict_returns : {"ndarray"}]
    /\ wf_pc = "idle"
    /\ wf_folds = <<>>
    /\ wf_i = 0
    /\ wf_model = None
    /\ wf_fits = <<>>
    /\ wf_preds = <<>>
    /\ wf_mets = <<>>
    /\ wf_read = NoRead
    /\ wf_completed = 0
    /\ wf_results = <<>>
    /\ results_ = <<>>
    /\ wf_exc = "none"
    /\ wf_calls = 0
    /\ wf_before = <<>>
    /\ wf_last = None
    /\ bt_cfg = IdleBacktestConfig
    /\ bt_pc = "off"
    /\ bt_i = 0
    /\ bt_a = IdleRun
    /\ bt_b = IdleRun
    /\ bt_runs = 0
    /\ bt_results_ = None
    /\ bt_returned = <<>>
    /\ bt_read = NoRead
    /\ cv_cfg = IdleSplitterConfig
    /\ cv_n = 0
    /\ cv_pc = "off"
    /\ cv_runs = <<>>
    /\ cv_count = None
    /\ fx_pc = "off"
    /\ fx_args = IdleCall
    /\ fx_ret = <<>>

RevalidateNext ==
    \/ ValidateStart
    \/ ValidateFold
    \/ ValidateReturn
    \/ ValidateAgain
    \/ Summary
    \/ GetAllPredictions
SpecRevalidate == RevalidateInit /\ [][RevalidateNext]_vars

(* SpecBacktest: Backtester.__init__ for two backtesters A and B and the    *)
(* arguments of their run() calls: same prices, sizer, max_position,        *)
(* capital and transaction cost. B runs without slippage and differs from A *)
(* in at most one input: one period's signal, or the slippage.              *)
BacktestInit ==
    /\ sp_pc = "off"
    /\ sp_fn = "none"
    /\ sp_args = IdleSplitArgs
    /\ sp_ret = <<>>
    /\ wf_cfg = IdleValidatorConfig
    /\ wf_pc = "off"
    /\ wf_folds = <<>>
    /\ wf_i = 0
    /\ wf_model = None
    /\ wf_fits = <<>>
    /\ wf_preds = <<>>
    /\ wf_mets = <<>>
    /\ wf_read = NoRead
    /\ wf_completed = 0
    /\ wf_results = <<>>
    /\ results_ = <<>>
    /\ wf_exc = "none"
    /\ wf_calls = 0
    /\ wf_before = <<>>
    /\ wf_last = None
    /\ bt_cfg \in BacktestConfigs
    /\ bt_pc = "idle"
    /\ bt_i = 0
    /\ \E sa \in SignalSeries, sb \in SignalSeries, slip \in Slippages :
         /\ IF slip = R(0) THEN OnePeriodApart(sa, sb) ELSE sa = sb
         /\ bt_a = InitRun(sa, slip, 0, R(0))
         /\ bt_b = InitRun(sb, R(0), 0, R(0))
    /\ bt_runs = 0
    /\ bt_results_ = None
    /\ bt_returned = <<>>
    /\ bt_read = NoRead
    /\ cv_cfg = IdleSplitterConfig
    /\ cv_n = 0
    /\ cv_pc = "off"
    /\ cv_runs = <<>>
    /\ cv_count = None
    /\ fx_pc = "off"
    /\ fx_args = IdleCall
    /\ fx_ret = <<>>

BacktestNext == RunStart \/ RunStep
SpecBacktest == BacktestInit /\ [][BacktestNext]_vars

(* SpecRerun: one Backtester on which run() is called MaxRuns times with    *)
(* the same prices, signals, sizer and max_position (B: the same calls on   *)
(* a backtester without slippage).                                          *)
RerunInit ==
    /\ sp_pc = "off"
    /\ sp_fn = "none"
    /\ sp_args = IdleSplitArgs
    /\ sp_ret = <<>>
    /\ wf_cfg = IdleValidatorConfig
    /\ wf_pc = "off"
    /\ wf_folds = <<>>
    /\ wf_i = 0
    /\ wf_model = None
    /\ wf_fits = <<>>
    /\ wf_preds = <<>>
    /\ wf_mets = <<>>
    /\ wf_read = NoRead
    /\ wf_completed = 0
    /\ wf_results = <<>>
    /\ results_ = <<>>
    /\ wf_exc = "none"
    /\ wf_calls = 0
    /\ wf_before = <<>>
    /\ wf_last = None
    /\ bt_cfg \in BacktestConfigs
    /\ bt_pc = "idle"
    /\ bt_i = 0
    /\ \E sa \in SignalSeries, slip \in Slippages :
         /\ bt_a = InitRun(sa, slip, 0, R(0))
         /\ bt_b = InitRun(sa, R(0), 0, R(0))
    /\ bt_runs = 0
    /\ bt_results_ = None
    /\ bt_returned = <<>>
    /\ bt_read = NoRead
    /\ cv_cfg = IdleSplitterConfig
    /\ cv_n = 0
    /\ cv_pc = "off"
    /\ cv_runs = <<>>
    /\ cv_count = None
    /\ fx_pc = "off"
    /\ fx_args = IdleCall
    /\ fx_ret = <<>>

RerunNext == RunStart \/ RunStep \/ RunAgain
SpecRerun == RerunInit /\ [][RerunNext]_vars

(* SpecCV: TimeSeriesSplit.__init__ and, on one X, up to MaxSplitCalls       *)
(* iterations of split(X) and a get_n_splits() call, in any order.          *)
CVInit ==
    /\ sp_pc = "off"
    /\ sp_fn = "none"
    /\ sp_args = IdleSplitArgs
    /\ sp_ret = <<>>
    /\ wf_cfg = IdleValidatorConfig
    /\ wf_pc = "off"
    /\ wf_folds = <<>>
    /\ wf_i = 0
    /\ wf_model = None
    /\ wf_fits = <<>>
    /\ wf_preds = <<>>
    /\ wf_mets = <<>>
    /\ wf_read = NoRead
    /\ wf_completed = 0
    /\ wf_results = <<>>
    /\ results_ = <<>>
    /\ wf_exc = "none"
    /\ wf_calls = 0
    /\ wf_before = <<>>
    /\ wf_last = None
    /\ bt_cfg = IdleBacktestConfig
    /\ bt_pc = "off"
    /\ bt_i = 0
    /\ bt_a = IdleRun
    /\ bt_b = IdleRun
    /\ bt_runs = 0
    /\ bt_results_ = None
    /\ bt_returned = <<>>
    /\ bt_read = NoRead
    /\ cv_cfg \in SplitterConfigs
    /\ cv_n \in 0..MaxSamples
    /\ cv_pc = "ready"
    /\ cv_runs = <<>>
    /\ cv_count = None
    /\ fx_pc = "off"
    /\ fx_args = IdleCall
    /\ fx_ret = <<>>

CVNext == Split \/ GetNSplits
SpecCV == CVInit /\ [][CVNext]_vars

Init == SplitInit
Next == SplitNext
Spec == SpecSplit

-----------------------------------------------------------------------------
(* CLAIMS                                                                   *)

(* C1: in validate, the model handed to predict_func for a fold was fitted  *)
(* only on rows that lie strictly before every row of the fold's test       *)
(* slice, with at least `gap` positions skipped between the last training   *)
(* row and the first test row. Stated over the predict_func calls of a run  *)
(* that returned normally (every such call belongs to a stored fold).       *)
C1_NoFutureRowsInTraining ==
    wf_pc = "returned" =>
        \A j \in 1..Len(wf_preds) :
            \A r \in wf_preds[j].model_rows : \A t \in wf_preds[j].test_rows :
                r + wf_cfg.gap < t

(* C2: an expanding_window_split call with k >= 1 that returns gives        *)
(* exactly k folds, fold_id 0..k-1, each with train_start = 0,              *)
(* test_start = train_end + gap and test_end <= n, in ascending train_end.  *)
C2_ExpandingFoldsWellFormed ==
    (sp_pc = "returned" /\ sp_fn = "expanding" /\ sp_args.k >= 1) =>
        /\ Len(sp_ret) = sp_args.k
        /\ \A j \in 1..Len(sp_ret) :
              /\ sp_ret[j].fold_id = j - 1
              /\ sp_ret[j].train_start = 0
              /\ sp_ret[j].test_start = sp_ret[j].train_end + sp_args.gap
              /\ sp_ret[j].test_end <= sp_args.n
        /\ \A j \in 1..(Len(sp_ret) - 1) : sp_ret[j].train_end <= sp_ret[j + 1].train_end

(* C2's case: a call with an explicit min_train_size returned several       *)
(* folds whose training windows really grow.                                *)
C2_Witness ==
    /\ sp_pc = "returned"
    /\ sp_fn = "expanding"
    /\ sp_args.k >= 2
    /\ sp_args.size # None
    /\ sp_args.gap >= 1
    /\ Len(sp_ret) = sp_args.k
    /\ sp_ret[1].train_end < sp_ret[Len(sp_ret)].train_end

(* A call on a non-empty sequence with n_folds >= 1 and an explicit train   *)
(* size (min_train_size / train_size) between 1 and n.                      *)
PlainArgs ==
    /\ sp_args.n >= 1
    /\ sp_args.k >= 1
    /\ sp_args.size # None
    /\ TheValue(sp_args.size) \in 1..sp_args.n

WellFormedFold(f, n) ==
    /\ 0 <= f.train_start
    /\ f.train_start <= f.train_end
    /\ f.train_end <= f.test_start
    /\ f.test_start <= f.test_end
    /\ f.test_end <= n

(* C3: every fold either generator returns (n_folds >= 1, train size >= 1,  *)
(* test_size >= 1, gap >= 0) has                                            *)
(* 0 <= train_start <= train_end <= test_start <= test_end <= n.            *)
C3_FoldRangesOrderedWithinData ==
    (sp_pc = "returned" /\ PlainArgs) =>
        \A j \in 1..Len(sp_ret) : WellFormedFold(sp_ret[j], sp_args.n)

(* C4: rolling_window_split returns no fold whose test window               *)
(* [test_start, test_start + test_size) would run past n, so every returned *)
(* fold's test window holds exactly test_size observations.                 *)
C4_RollingDropsOverrunningFolds ==
    (sp_pc = "returned" /\ sp_fn = "rolling" /\ PlainArgs) =>
        \A j \in 1..Len(sp_ret) :
            /\ sp_ret[j].test_start + sp_args.test_size <= sp_args.n
            /\ sp_ret[j].test_end - sp_ret[j].test_start = sp_args.test_size

(* C5: the test ranges of two distinct folds of one call do not overlap:    *)
(* for folds i < j, test_end of fold i <= test_start of fold j. Stated for  *)
(* the calls whose folds are all well formed with full test windows.        *)
C5_TestRangesDisjoint ==
    (/\ sp_pc = "returned"
     /\ PlainArgs
     /\ \A j \in 1..Len(sp_ret) :
           /\ WellFormedFold(sp_ret[j], sp_args.n)
           /\ sp_ret[j].test_end - sp_ret[j].test_start = sp_args.test_size) =>
        \A i \in 1..Len(sp_ret) : \A j \in 1..Len(sp_ret) :
            i < j => sp_ret[i].test_end <= sp_ret[j].test_start

(* C6: expanding_window_split raises exactly when                           *)
(* min_train_size + n_folds*test_size + n_folds*gap > n_samples, with       *)
(* min_train_size = floor(n_samples/(n_folds+1)) when not given; it raises  *)
(* before any fold exists and otherwise returns.                            *)
C6_ExpandingRaisesIffOversubscribed ==
    sp_fn = "expanding" =>
        LET a == sp_args
            m == IF a.size = None THEN a.n \div (a.k + 1) ELSE TheValue(a.size)
            over == m + a.k * a.test_size + a.k * a.gap > a.n
        IN  /\ sp_pc \in {"raised", "returned"}
            /\ sp_pc = "raised" <=> over
            /\ sp_pc = "raised" => sp_ret = <<>>

(* C6's cases: a call that raised with min_train_size defaulted, at the     *)
(* smallest excess (one sample short).                                      *)
C6_Witness ==
    /\ sp_fn = "expanding"
    /\ sp_pc = "raised"
    /\ sp_args.size = None
    /\ sp_args.gap >= 1
    /\ (sp_args.n \div (sp_args.k + 1)) + sp_args.k * (sp_args.test_size + sp_args.gap)
         = sp_args.n + 1

(* The elements of the tracking arrays that run() has written so far        *)
(* (sequence element u is array element u - 1).                             *)
Written == IF bt_pc \in {"loop", "done"} THEN 1..bt_i ELSE {}

(* C7: every recorded position lies in [-max_position, max_position], and   *)
(* position[0] = 0, whatever the position sizer returns.                    *)
C7_PositionWithinLimit ==
    bt_pc \in {"loop", "done"} =>
        \A run \in {bt_a, bt_b} :
            /\ run.positions[1] = R(0)
            /\ \A u \in 1..Len(run.positions) :
                  /\ RLeq(RNeg(bt_cfg.max_position), run.positions[u])
                  /\ RLeq(run.positions[u], bt_cfg.max_position)

(* C7's case: the sizer that asks for an infinite position traded, and the  *)
(* recorded position sits at the limit on the short side.                   *)
C7_Witness ==
    /\ bt_pc = "done"
    /\ bt_cfg.sizer = "unbounded"
    /\ RLess(R(0), bt_cfg.max_position)
    /\ \E u \in 2..Len(bt_a.positions) :
          /\ bt_a.trades[u] = 1
          /\ bt_a.positions[u] = RNeg(bt_cfg.max_position)

SameStateAt(u) ==
    /\ bt_a.positions[u] = bt_b.positions[u]
    /\ bt_a.cash[u] = bt_b.cash[u]
    /\ bt_a.equity[u] = bt_b.equity[u]
    /\ bt_a.returns[u] = bt_b.returns[u]
    /\ bt_a.trades[u] = bt_b.trades[u]

(* C8: no look-ahead. If the signal series of two runs with the same        *)
(* prices, costs and sizer agree on every index < t, position, cash,        *)
(* equity, return and trade flag agree at every step <= t; so the last      *)
(* period's signal influences nothing.                                      *)
C8_NoLookAhead ==
    bt_a.slippage = bt_b.slippage =>
        \A d \in 1..Len(bt_cfg.prices) :
            (\A j \in 1..(d - 1) : bt_a.signals[j] = bt_b.signals[j]) =>
                \A u \in Written : u <= d => SameStateAt(u)

(* C8's case: the two series differ in the period before the last one       *)
(* only; the runs are over and their last positions differ.                 *)
C8_Witness ==
    /\ bt_pc = "done"
    /\ bt_a.slippage = bt_b.slippage
    /\ Len(bt_cfg.prices) >= 3
    /\ LET n == Len(bt_cfg.prices)
       IN  /\ bt_a.signals[n - 1] # bt_b.signals[n - 1]
           /\ bt_a.positions[n] # bt_b.positions[n]
           /\ bt_a.trades[n - 1] = 1

(* C9: slippage reaches the equity: with the same prices, signals, sizer    *)
(* and transaction cost, a run with slippage > 0 has lower cash and lower   *)
(* equity at a step where it records a trade than the run with slippage 0.  *)
C9_SlippageLowersCashAndEquity ==
    (/\ RLess(R(0), bt_a.slippage)
     /\ bt_b.slippage = R(0)
     /\ bt_a.signals = bt_b.signals) =>
        \A u \in Written :
            bt_a.trades[u] = 1 =>
                /\ RLess(bt_a.cash[u], bt_b.cash[u])
                /\ RLess(bt_a.equity[u], bt_b.equity[u])

(* C10: after run, equity[0] = cash[0] = initial_capital, position[0] = 0,  *)
(* return[0] = 0, no trade at step 0, and for every t >= 1                  *)
(* equity[t] = cash[t] + position[t] * equity[t-1] * (price[t]/price[t-1]). *)
C10_EquityIdentity ==
    bt_pc = "done" =>
        \A run \in {bt_a, bt_b} :
            /\ run.equity[1] = bt_cfg.initial_capital
            /\ run.cash[1] = bt_cfg.initial_capital
            /\ run.positions[1] = R(0)
            /\ run.returns[1] = R(0)
            /\ run.trades[1] = 0
            /\ \A u \in 2..Len(bt_cfg.prices) :
                  run.equity[u] =
                      RAdd(run.cash[u],
                           RMul(RMul(run.positions[u], run.equity[u - 1]),
                                RDiv(R(bt_cfg.prices[u]), R(bt_cfg.prices[u - 1]))))

(* C10's case: a finished run that traded into a position at a cost while   *)
(* the price moved.                                                         *)
C10_Witness ==
    /\ bt_pc = "done"
    /\ RLess(R(0), bt_cfg.transaction_cost)
    /\ \E u \in 2..Len(bt_cfg.prices) :
          /\ bt_a.trades[u] = 1
          /\ bt_a.positions[u] # R(0)
          /\ bt_cfg.prices[u] # bt_cfg.prices[u - 1]
          /\ IsFinite(bt_a.equity[u])
          /\ bt_a.equity[u] # bt_a.cash[u]

(* A run of the frictionless, fully invested case: no transaction cost, no  *)
(* slippage, max_position = 1, the default sizer, signal 1 at every period. *)
AlwaysLong(run) ==
    /\ bt_cfg.transaction_cost = R(0)
    /\ bt_cfg.max_position = R(1)
    /\ bt_cfg.sizer = "default"
    /\ run.slippage = R(0)
    /\ \A j \in 1..Len(run.signals) : run.signals[j] = 1

(* run() on prices [100, 102, 101] with signals [1, 1, 1], capital 100.     *)
ExampleRun ==
    RunArrays([prices |-> <<100, 102, 101>>, max_position |-> R(1), sizer |-> "default",
               transaction_cost |-> R(0), initial_capital |-> R(100)],
              <<1, 1, 1>>, R(0))

(* C11: with transaction_cost = 0, slippage = 0, max_position = 1, the      *)
(* default sizer and signal 1 at every period, the positions are            *)
(* [0, 1, 1, ..., 1] and equity[t]/equity[t-1] = price[t]/price[t-1] for    *)
(* every t >= 1; prices [100, 102, 101] with signals [1, 1, 1] give         *)
(* positions [0, 1, 1] and an equity that follows the price.                *)
C11_FullyInvestedTracksPrice ==
    /\ \A run \in {bt_a, bt_b} :
          AlwaysLong(run) =>
              \A u \in Written :
                  /\ run.positions[u] = IF u = 1 THEN R(0) ELSE R(1)
                  /\ u >= 2 =>
                        RDiv(run.equity[u], run.equity[u - 1])
                            = RDiv(R(bt_cfg.prices[u]), R(bt_cfg.prices[u - 1]))
    /\ ExampleRun.positions = <<R(0), R(1), R(1)>>
    /\ ExampleRun.equity = <<R(100), R(102), R(101)>>

(* C11's case: a finished always-long run over prices that rose and fell.   *)
C11_Witness ==
    /\ bt_pc = "done"
    /\ AlwaysLong(bt_b)
    /\ Len(bt_cfg.prices) >= 3
    /\ bt_cfg.prices[1] < bt_cfg.prices[2]
    /\ bt_cfg.prices[3] < bt_cfg.prices[2]
    /\ bt_b.positions[3] = R(1)
    /\ bt_b.cash[3] = R(0)

(* C12: run() is idempotent: a further run() call on the same Backtester    *)
(* with the same prices, signals, sizer and max_position returns and stores *)
(* the same equity, position, cash, return and trade sequences as the call  *)
(* before it; the stored result of the earlier call influences nothing.     *)
C12_RunIdempotent ==
    /\ \A r \in 2..Len(bt_returned) : bt_returned[r] = bt_returned[r - 1]
    /\ (bt_pc = "done" /\ bt_runs >= 1) =>
          /\ Len(bt_returned) = bt_runs
          /\ bt_results_ = Some(bt_returned[bt_runs])
    /\ (bt_pc \in {"loop", "done"} /\ bt_runs >= 2) =>
          \A u \in Written :
              /\ bt_a.equity[u] = bt_returned[1].equity[u]
              /\ bt_a.positions[u] = bt_returned[1].position[u]
              /\ bt_a.cash[u] = bt_returned[1].cash[u]
              /\ bt_a.returns[u] = bt_returned[1].returns[u]
              /\ bt_a.trades[u] = bt_returned[1].trade[u]

(* C12's case: the second run() call is over; the first one had traded and  *)
(* ended with an equity other than the initial capital.                     *)
C12_Witness ==
    /\ bt_pc = "done"
    /\ bt_runs = 2
    /\ Len(bt_returned) = 2
    /\ \E u \in 2..Len(bt_cfg.prices) : bt_returned[1].trade[u] = 1
    /\ bt_returned[1].equity[Len(bt_cfg.prices)] # bt_cfg.initial_capital
    /\ IsFinite(bt_returned[1].equity[Len(bt_cfg.prices)])

(* The logged calls of one fold.                                            *)
FitCallsOf(f) == {j \in 1..Len(wf_fits) : wf_fits[j].fold = f}
PredictCallsOf(f) == {j \in 1..Len(wf_preds) : wf_preds[j].fold = f}
MetricCallsOf(f) == {j \in 1..Len(wf_mets) : wf_mets[j].fold = f}

(* C13: a metric function that raises for some fold is caught: that         *)
(* metric's value for that fold is recorded as NaN, the other metrics of    *)
(* the fold are still computed, the FoldResult is still appended, every     *)
(* later fold is still fitted (where validate fits), predicted and scored,  *)
(* and validate returns normally: nothing but a configuration error, an     *)
(* empty slice or a raising fit_func / predict_func ends it.                *)
C13_MetricFailureIsCaught ==
    \A j \in 1..Len(wf_mets) :
        wf_mets[j].raised =>
            LET f == wf_mets[j].fold
            IN  /\ {wf_mets[c].name : c \in MetricCallsOf(f)} = MetricNames
                /\ wf_exc \in {"none", "IndexError", "FitError", "PredictError"}
                /\ (wf_exc # "IndexError") => Len(wf_results) > f
                /\ Len(wf_results) > f =>
                      /\ wf_results[f + 1].fold_id = f
                      /\ wf_results[f + 1].metrics[wf_mets[j].name] = NaNMetric
                      /\ \A c \in MetricCallsOf(f) :
                            ~wf_mets[c].raised =>
                                wf_results[f + 1].metrics[wf_mets[c].name]
                                    = MetricValue(wf_mets[c].name, wf_folds[f + 1].test)
                /\ (wf_pc = "running" /\ wf_i = Len(wf_folds)) => ENABLED ValidateReturn
                /\ wf_pc = "returned" =>
                      /\ Len(results_) = Len(wf_folds)
                      /\ \A g \in (f + 1)..(Len(wf_folds) - 1) :
                            /\ wf_cfg.refit => FitCallsOf(g) # {}
                            /\ PredictCallsOf(g) # {}
                            /\ {wf_mets[c].name : c \in MetricCallsOf(g)} = MetricNames

(* C13's case: validate returned; MAE raised in the first fold, RMSE did    *)
(* not, and a later fold was scored in full.                                *)
C13_Witness ==
    /\ wf_pc = "returned"
    /\ Len(results_) >= 2
    /\ results_[1].metrics["MAE"] = NaNMetric
    /\ results_[1].metrics["RMSE"] # NaNMetric
    /\ \E c \in 1..Len(wf_mets) :
          wf_mets[c].fold = 0 /\ wf_mets[c].name = "MAE" /\ wf_mets[c].raised
    /\ \A name \in MetricNames : results_[2].metrics[name] # NaNMetric

(* C14: an exception raised by fit_func or predict_func at fold i leaves    *)
(* validate unchanged and ends the run: the failed call is made once, and   *)
(* no fit, predict or metric function is called after it, for fold i or     *)
(* for any later fold.                                                      *)
C14_FitPredictFailureAborts ==
    /\ \A j \in 1..Len(wf_fits) :
          wf_fits[j].raised =>
              LET f == wf_fits[j].fold
              IN  /\ wf_pc = "raised"
                  /\ wf_exc = "FitError"
                  /\ wf_i = f
                  /\ Len(wf_results) = f
                  /\ j = Len(wf_fits)
                  /\ FitCallsOf(f) = {j}
                  /\ \A g \in f..Len(wf_folds) :
                        PredictCallsOf(g) = {} /\ MetricCallsOf(g) = {}
                  /\ \A g \in (f + 1)..Len(wf_folds) : FitCallsOf(g) = {}
    /\ \A j \in 1..Len(wf_preds) :
          wf_preds[j].raised =>
              LET f == wf_preds[j].fold
              IN  /\ wf_pc = "raised"
                  /\ wf_exc = "PredictError"
                  /\ wf_i = f
                  /\ Len(wf_results) = f
                  /\ j = Len(wf_preds)
                  /\ PredictCallsOf(f) = {j}
                  /\ \A g \in f..Len(wf_folds) : MetricCallsOf(g) = {}
                  /\ \A g \in (f + 1)..Len(wf_folds) :
                        FitCallsOf(g) = {} /\ PredictCallsOf(g) = {}

(* C14's case: predict_func raised in the second of three folds, after a    *)
(* first fold that was fitted, predicted and scored.                        *)
C14_Witness ==
    /\ wf_pc = "raised"
    /\ wf_exc = "PredictError"
    /\ Len(wf_folds) = 3
    /\ wf_i = 1
    /\ Len(wf_results) = 1
    /\ Len(wf_preds) = 2
    /\ wf_preds[2].raised

(* C15: a validate() call that returned has, with refit=True, called        *)
(* fit_func exactly once per fold, in fold order, on that fold's training   *)
(* slice; with refit=False it has called fit_func exactly once (on fold 0's *)
(* training slice) and passed that one model to predict_func in every       *)
(* fold, whatever value fit_func returned.                                  *)
C15_FitOncePerFoldOrOncePerRun ==
    wf_pc = "returned" =>
        IF wf_cfg.refit
        THEN /\ Len(wf_fits) = Len(wf_folds)
             /\ \A j \in 1..Len(wf_fits) :
                   wf_fits[j].fold = j - 1 /\ wf_fits[j].train = wf_folds[j].train
        ELSE Len(wf_folds) >= 1 =>
                /\ Len(wf_fits) = 1
                /\ wf_fits[1].fold = 0
                /\ wf_fits[1].train = wf_folds[1].train
                /\ \A j \in 1..Len(wf_preds) :
                      /\ wf_preds[j].model = wf_preds[1].model
                      /\ wf_preds[j].model_rows = wf_folds[1].train

(* C16: summary() and get_all_predictions() raise whenever they are called  *)
(* on a validator on which no validate() call has completed, and return     *)
(* nothing.                                                                 *)
C16_ReadsRaiseBeforeAnyRun ==
    (wf_read.op \in {"summary", "get_all_predictions"} /\ wf_completed = 0) =>
        /\ wf_read.raised
        /\ wf_read.value = <<>>

(* C16's case: summary() raised on a validator whose only validate() call   *)
(* was ended by predict_func after one fold had been scored.                *)
C16_Witness ==
    /\ wf_read.op = "summary"
    /\ wf_read.raised
    /\ wf_completed = 0
    /\ wf_pc = "raised"
    /\ wf_exc = "PredictError"
    /\ Len(wf_results) >= 1

(* C17: after a validate() call that returned normally, summary() does not  *)
(* raise and returns, for every requested metric, the mean, standard        *)
(* deviation, min, max and median of that metric over the folds of that     *)
(* run, also when the run produced no fold (stated for non-empty data).     *)
C17_SummaryAfterAnyCompletedRun ==
    (wf_read.op = "summary" /\ wf_completed >= 1 /\ wf_cfg.n >= 1) =>
        /\ ~wf_read.raised
        /\ DOMAIN wf_read.value = MetricNames
        /\ \A name \in MetricNames :
              /\ wf_read.value[name].stats = {"Mean", "Std", "Min", "Max", "Median"}
              /\ Len(wf_read.value[name].column) = Len(wf_folds)
              /\ \A j \in 1..Len(wf_folds) :
                    wf_read.value[name].column[j] = wf_results[j].metrics[name]

(* A validate() call that returned stored exactly one FoldResult per        *)
(* generated fold, with fold_id 0, 1, 2, ... in the order of the folds,     *)
(* and called predict_func in that order.                                   *)
OneResultPerFoldInOrder ==
    wf_pc = "returned" =>
        /\ Len(results_) = Len(wf_folds)
        /\ Len(wf_preds) = Len(wf_folds)
        /\ \A j \in 1..Len(wf_folds) :
              /\ results_[j].fold_id = j - 1
              /\ results_[j].predictions = wf_folds[j].test
              /\ wf_preds[j].fold = j - 1

(* The stored folds are in chronological order: no fold's test period or    *)
(* training period starts before the one of the fold stored before it.      *)
ResultsChronological ==
    wf_pc = "returned" =>
        \A j \in 1..(Len(results_) - 1) :
            /\ results_[j].test_start <= results_[j + 1].test_start
            /\ results_[j].train_start <= results_[j + 1].train_start

(* get_all_predictions returns the rows of fold 0, then those of fold 1,    *)
(* and so on, each row tagged with the fold_id of its fold.                 *)
PredictionsInFoldOrder ==
    (wf_read.op = "get_all_predictions" /\ ~wf_read.raised) =>
        LET rows == wf_read.value
        IN  /\ \A p \in 1..Len(rows) : \A q \in (p + 1)..Len(rows) :
                  /\ rows[p].fold <= rows[q].fold
                  /\ rows[p].fold = rows[q].fold => rows[p].row < rows[q].row
            /\ \A p \in 1..Len(rows) : rows[p].fold \in 0..(Len(results_) - 1)
            /\ \A f \in 0..(Len(results_) - 1) :
                  {rows[p].row : p \in {q \in 1..Len(rows) : rows[q].fold = f}}
                      = results_[f + 1].predictions

(* C18: validate processes the folds in chronological order and stores      *)
(* exactly one FoldResult per generated fold, with fold_id 0, 1, 2, ... in  *)
(* that order; get_all_predictions returns the prediction/actual rows of    *)
(* fold 0, then fold 1, and so on, each tagged with its fold's fold_id.     *)
C18_FoldsStoredInChronologicalOrder ==
    /\ OneResultPerFoldInOrder
    /\ ResultsChronological
    /\ PredictionsInFoldOrder

(* C19: validate has no side effect other than replacing the validator's    *)
(* own FoldResult collection; in particular the object that predict_func    *)
(* returned is, after validate has handled it, as predict_func returned it  *)
(* (no 'actual' column is added to the caller's own object).                *)
C19_CallerObjectsUntouched ==
    \A j \in 1..Len(wf_preds) : wf_preds[j].caller_object = wf_preds[j].returned

(* Sequence `indices` is the contiguous index range [start, stop).          *)
IsIndexRange(indices, start, stop) ==
    /\ {indices[p] : p \in 1..Len(indices)} = start..(stop - 1)
    /\ \A p \in 1..Len(indices) : \A q \in (p + 1)..Len(indices) : indices[p] < indices[q]

(* C20 as first stated: every iteration of split(X) yields one pair of      *)
(* contiguous index ranges per fold of the fold generator, and the number   *)
(* of pairs yielded equals get_n_splits() (stated for non-empty X).         *)
C20_PairCountAlwaysNSplits ==
    \A r \in 1..Len(cv_runs) :
        cv_n >= 1 =>
        /\ cv_runs[r] = cv_runs[1]
        /\ Len(cv_runs[r].pairs) = Len(SplitFolds(cv_cfg, cv_n).folds)
        /\ cv_count # None => Len(cv_runs[r].pairs) = TheValue(cv_count)

(* C20: split is finite and restartable: every iteration of split(X) on the *)
(* same splitter and the same-length X yields the same finite sequence of   *)
(* (train-indices, test-indices) pairs; in an iteration that does not end   *)
(* in the fold generator's ValueError, pair j is the contiguous index       *)
(* ranges [train_start, train_end) and [test_start, test_end) of fold j of  *)
(* the fold generator, and the number of pairs equals get_n_splits().       *)
C20_SplitRestartable ==
    \A r \in 1..Len(cv_runs) :
        /\ cv_runs[r] = cv_runs[1]
        /\ cv_runs[r].raised => cv_runs[r].pairs = <<>>
        /\ ~cv_runs[r].raised =>
              LET pairs == cv_runs[r].pairs
                  folds == SplitFolds(cv_cfg, cv_n).folds
              IN  /\ Len(pairs) = Len(folds)
                  /\ \A j \in 1..Len(pairs) :
                        /\ IsIndexRange(pairs[j].train,
                                        folds[j].train_start, folds[j].train_end)
                        /\ IsIndexRange(pairs[j].test,
                                        folds[j].test_start, folds[j].test_end)
                  /\ cv_count # None => Len(pairs) = TheValue(cv_count)

(* C20's case: two iterations of a rolling split with three folds and a     *)
(* get_n_splits() call; the last pair has training and test indices.        *)
C20_Witness ==
    /\ Len(cv_runs) = 2
    /\ ~cv_runs[2].raised
    /\ cv_cfg.method = "rolling"
    /\ cv_cfg.train_size # None
    /\ cv_count = Some(3)
    /\ Len(cv_runs[2].pairs) = 3
    /\ Len(cv_runs[2].pairs[3].train) >= 2
    /\ Len(cv_runs[2].pairs[3].test) >= 2
    /\ cv_runs[2].pairs[3].train[1] >= 1

(* The clipped target of step u - 1 (sequence element u) of a run, from the *)
(* signal of the period before, the price and the equity before the step.   *)
ClippedTargetAt(run, u) ==
    LET signal == R(run.signals[u - 1])
        raw == CASE bt_cfg.sizer = "default" -> RMul(signal, bt_cfg.max_position)
                 [] bt_cfg.sizer = "by_price" -> RDiv(signal, RMul(R(2), R(bt_cfg.prices[u])))
                 [] OTHER -> IF signal[1] = 0 THEN NaN ELSE <<Sign(signal[1]), 0>>
    IN  RMinimum(RMaximum(raw, RNeg(bt_cfg.max_position)), bt_cfg.max_position)

(* C26: a trade is recorded at step t (trade flag 1, position set to the    *)
(* clipped target) if and only if |clipped target - position[t-1]| > 0.001; *)
(* at every other step the trade flag is 0 and position and cash are        *)
(* carried over unchanged from step t-1.                                    *)
C26_TradeIffBeyondDeadBand ==
    \A run \in {bt_a, bt_b} :
        \A u \in Written :
            u >= 2 =>
                LET target == ClippedTargetAt(run, u)
                    beyond == RLess(<<1, 1000>>, RAbs(RSub(target, run.positions[u - 1])))
                IN  /\ run.trades[u] = 1 <=> beyond
                    /\ run.trades[u] \in {0, 1}
                    /\ beyond => run.positions[u] = target
                    /\ ~beyond =>
                          /\ run.positions[u] = run.positions[u - 1]
                          /\ run.cash[u] = run.cash[u - 1]

(* C26's case: the target is exactly 0.001 away from the flat position, so  *)
(* no trade is recorded; position and cash stay where they were.            *)
C26_Witness ==
    /\ bt_pc = "done"
    /\ \E u \in 2..Len(bt_cfg.prices) :
          /\ ClippedTargetAt(bt_a, u) = <<1, 1000>>
          /\ bt_a.positions[u - 1] = R(0)
          /\ bt_a.trades[u] = 0
          /\ bt_a.positions[u] = R(0)
          /\ bt_a.cash[u] = bt_cfg.initial_capital

C28_FlatStepKeepsEquity ==
    \A run \in {bt_a, bt_b} :
        (bt_cfg.transaction_cost = R(0) /\ run.slippage = R(0)) =>
            \A u \in Written :
                (u >= 2 /\ run.trades[u] = 0 /\ bt_cfg.prices[u] = bt_cfg.prices[u - 1]) =>
                    /\ run.equity[u] = run.equity[u - 1]
                    /\ run.returns[u] = R(0)


-----------------------------------------------------------------------------
(* METRIC AND SIZING FUNCTIONS                                              *)

MaxCurveLen == 5    \* longest equity curve passed to max_drawdown

(* np.maximum.accumulate(equity_curve)[t - 1]                               *)
RECURSIVE RunningMaxAt(_, _)
RunningMaxAt(equity_curve, t) ==
    IF t = 1
    THEN equity_curve[1]
    ELSE RMaximum(RunningMaxAt(equity_curve, t - 1), equity_curve[t])

(* np.argmin / np.argmax of a non-empty array: the 0-based index of the     *)
(* first NaN if there is one, else of the first smallest / largest element. *)
FirstNaN(xs) == CHOOSE t \in 1..Len(xs) : IsNaN(xs[t]) /\ \A u \in 1..(t - 1) : ~IsNaN(xs[u])
ArgMin(xs) ==
    IF \E t \in 1..Len(xs) : IsNaN(xs[t])
    THEN FirstNaN(xs) - 1
    ELSE (CHOOSE t \in 1..Len(xs) :
              /\ \A u \in 1..Len(xs) : RLeq(xs[t], xs[u])
              /\ \A u \in 1..(t - 1) : xs[u] # xs[t]) - 1
ArgMax(xs) ==
    IF \E t \in 1..Len(xs) : IsNaN(xs[t])
    THEN FirstNaN(xs) - 1
    ELSE (CHOOSE t \in 1..Len(xs) :
              /\ \A u \in 1..Len(xs) : RLeq(xs[u], xs[t])
              /\ \A u \in 1..(t - 1) : xs[u] # xs[t]) - 1

(* drawdowns = (equity_curve - running_max) / running_max                   *)
Drawdowns(equity_curve) ==
    [t \in 1..Len(equity_curve) |->
        RDiv(RSub(equity_curve[t], RunningMaxAt(equity_curve, t)),
             RunningMaxAt(equity_curve, t))]

(* A variant of max_drawdown that looks for the peak over the whole curve.  *)
max_drawdown_global_peak(equity_curve) ==
    IF Len(equity_curve) < 2
    THEN <<R(0), 0, 0>>
    ELSE LET drawdowns == Drawdowns(equity_curve)
             trough_idx == ArgMin(drawdowns)
             peak_idx == ArgMax(equity_curve)
             max_dd == RNeg(drawdowns[trough_idx + 1])
         IN  <<max_dd, peak_idx, trough_idx>>

(* max_drawdown(equity_curve): (max_dd, peak_idx, trough_idx), 0-based.     *)
max_drawdown(equity_curve) ==
    IF Len(equity_curve) < 2
    THEN <<R(0), 0, 0>>
    ELSE LET drawdowns == Drawdowns(equity_curve)
             trough_idx == ArgMin(drawdowns)
             peak_idx == ArgMax(SubSeq(equity_curve, 1, trough_idx + 1))
             max_dd == RNeg(drawdowns[trough_idx + 1])
         IN  <<max_dd, peak_idx, trough_idx>>

(* The equity curves of the model: up to MaxCurveLen values, starting, like *)
(* a backtest, from a positive capital; later values may fall to zero.      *)
CurveValues == {0, 90, 95, 100, 120, 130}
EquityCurves ==
    {<<>>} \cup
    UNION {{curve \in [1..len -> {R(v) : v \in CurveValues}] : curve[1] # R(0)} :
           len \in 1..MaxCurveLen}

MaxDrawdownCalls == [fn : {"max_drawdown"}, equity_curve : EquityCurves]

CallMaxDrawdown ==
    /\ fx_pc = "args"
    /\ fx_args.fn = "max_drawdown"
    /\ fx_ret' = max_drawdown(fx_args.equity_curve)
    /\ fx_pc' = "returned"
    /\ UNCHANGED <<fx_args, spVars, wfVars, btVars, cvVars>>

MaxReturns == 3     \* longest return series passed to sharpe_ratio

(* returns[~np.isnan(returns)]                                              *)
RECURSIVE DropNaN(_)
DropNaN(xs) ==
    IF xs = <<>> THEN <<>>
    ELSE IF IsNaN(Head(xs)) THEN DropNaN(Tail(xs))
    ELSE <<Head(xs)>> \o DropNaN(Tail(xs))

RECURSIVE RSum(_)
RSum(xs) == IF xs = <<>> THEN R(0) ELSE RAdd(Head(xs), RSum(Tail(xs)))

(* np.mean(xs)                                                              *)
Mean(xs) == RDiv(RSum(xs), R(Len(xs)))

(* np.std(xs) ** 2: the mean squared deviation from the mean (ddof = 0).    *)
Variance(xs) ==
    LET m == Mean(xs)
    IN  Mean([t \in 1..Len(xs) |-> RMul(RSub(xs[t], m), RSub(xs[t], m))])

(* `np.std(returns) < 1e-10`. Every series of the model has a standard      *)
(* deviation of 0 or of at least 0.04, so the test is a test for 0.         *)
StdNearZero(xs) == Variance(xs) = R(0)

(* A variant of TooFewReturns that accepts a single return.                 *)
NoReturns(returns) == Len(returns) < 1

(* `len(returns) < 2`                                                       *)
TooFewReturns(returns) == Len(returns) < 2

(* A float result, or mean / sqrt(variance) * sqrt(periods) left unevaluated *)
(* (the square roots are not rational).                                     *)
Float(x) == [kind |-> "float", value |-> x]
Annualised(mean, variance, periods) ==
    [kind |-> "mean / std * sqrt(periods)", mean |-> mean, variance |-> variance,
     periods |-> periods]

(* sharpe_ratio(returns, risk_free_rate, periods_per_year)                  *)
sharpe_ratio(returns_in, risk_free_rate, periods_per_year) ==
    LET returns == DropNaN(returns_in)
        per_period == RDiv(risk_free_rate, R(periods_per_year))
        excess_returns == [t \in 1..Len(returns) |-> RSub(returns[t], per_period)]
    IN  IF TooFewReturns(returns) THEN Float(NaN)
        ELSE IF StdNearZero(returns) THEN Float(R(0))
        ELSE Annualised(Mean(excess_returns), Variance(returns), periods_per_year)

ReturnValues == {<<-1, 10>>, R(0), <<1, 10>>, NaN}
ReturnSeries == UNION {[1..len -> ReturnValues] : len \in 0..MaxReturns}
SharpeRatioCalls ==
    [fn : {"sharpe_ratio"}, returns : ReturnSeries,
     risk_free_rate : {R(0), <<1, 20>>}, periods_per_year : {1, 252}]

CallSharpeRatio ==
    /\ fx_pc = "args"
    /\ fx_args.fn = "sharpe_ratio"
    /\ fx_ret' = sharpe_ratio(fx_args.returns, fx_args.risk_free_rate,
                              fx_args.periods_per_year)
    /\ fx_pc' = "returned"
    /\ UNCHANGED <<fx_args, spVars, wfVars, btVars, cvVars>>

(* A variant of BelowThreshold that also rejects the threshold itself.      *)
AtOrBelowThreshold(confidence, confidence_threshold) ==
    RLeq(confidence, confidence_threshold)

(* `confidence < confidence_threshold`                                      *)
BelowThreshold(confidence, confidence_threshold) ==
    RLess(confidence, confidence_threshold)

(* x / y on floats: a Python float raises ZeroDivisionError for y = 0, a    *)
(* NumPy float gives inf or NaN; the caller's argument types decide.        *)
TrueDivide(x, y) ==
    IF y = R(0)
    THEN {[raised |-> TRUE, value |-> NaN], [raised |-> FALSE, value |-> RDiv(x, y)]}
    ELSE {[raised |-> FALSE, value |-> RDiv(x, y)]}

(* uncertainty_based_sizer(signal, confidence, base_position,               *)
(* confidence_threshold): the outcomes the call may have.                   *)
uncertainty_based_sizer(signal, confidence, base_position, confidence_threshold) ==
    IF BelowThreshold(confidence, confidence_threshold)
    THEN {[raised |-> FALSE, value |-> R(0)]}
    ELSE {IF scale.raised
          THEN scale
          ELSE [raised |-> FALSE,
                value |-> RMul(RAdd(base_position,
                                    RMul(scale.value, RSub(R(1), base_position))),
                               R(Sign(signal[1])))] :
          scale \in TrueDivide(RSub(confidence, confidence_threshold),
                               RSub(R(1), confidence_threshold))}

SizerCalls ==
    [fn : {"uncertainty_based_sizer"},
     signal : {R(-1), R(0), R(1)},
     confidence : {R(0), <<1, 2>>, <<7, 10>>, <<17, 20>>, R(1), <<6, 5>>},
     base_position : {R(0), <<1, 2>>, R(1), <<3, 2>>},
     confidence_threshold : {<<1, 2>>, <<7, 10>>, R(1)}]

CallSizer ==
    /\ fx_pc = "args"
    /\ fx_args.fn = "uncertainty_based_sizer"
    /\ \E out \in uncertainty_based_sizer(fx_args.signal, fx_args.confidence,
                                          fx_args.base_position,
                                          fx_args.confidence_threshold) :
          /\ fx_pc' = IF out.raised THEN "raised" ELSE "returned"
          /\ fx_ret' = out.value
    /\ UNCHANGED <<fx_args, spVars, wfVars, btVars, cvVars>>

(* A variant of BothBounds that is content with one bound.                  *)
EitherBound(lower, upper) == lower # None \/ upper # None

(* `lower is not None and upper is not None`                                *)
BothBounds(lower, upper) == lower # None /\ upper # None

(* One entry of forecast_summary's metrics dict: the key and the function   *)
(* of this module that computes its value.                                  *)
Entry(metric, function) == [Metric |-> metric, Value |-> function]

(* forecast_summary(actual, predicted, samples, lower, upper,               *)
(* training_actual): the rows of the returned table, in insertion order.    *)
forecast_summary(samples, lower, upper, training_actual) ==
    <<Entry("MAE", "mae"), Entry("RMSE", "rmse"), Entry("MAPE", "mape"),
      Entry("SMAPE", "smape")>>
    \o (IF training_actual # None THEN <<Entry("MASE", "mase")>> ELSE <<>>)
    \o (IF samples # None
        THEN <<Entry("CRPS", "crps"), Entry("Calibration Error", "calibration_score")>>
        ELSE <<>>)
    \o (IF BothBounds(lower, upper)
        THEN <<Entry("Coverage (%)", "interval_coverage"),
               Entry("Interval Width", "interval_width"),
               Entry("Winkler Score", "winkler_score")>>
        ELSE <<>>)

(* An optional array argument: None, or an array.                           *)
OptionalArray == {None, Some("ndarray")}
ForecastSummaryCalls ==
    [fn : {"forecast_summary"}, samples : OptionalArray, lower : OptionalArray,
     upper : OptionalArray, training_actual : OptionalArray]

CallForecastSummary ==
    /\ fx_pc = "args"
    /\ fx_args.fn = "forecast_summary"
    /\ fx_ret' = forecast_summary(fx_args.samples, fx_args.lower, fx_args.upper,
                                  fx_args.training_actual)
    /\ fx_pc' = "returned"
    /\ UNCHANGED <<fx_args, spVars, wfVars, btVars, cvVars>>

(* SpecMetrics: one call of a metric or sizing function on arbitrary        *)
(* arguments.                                                               *)
MetricsInit ==
    /\ sp_pc = "off"
    /\ sp_fn = "none"
    /\ sp_args = IdleSplitArgs
    /\ sp_ret = <<>>
    /\ wf_cfg = IdleValidatorConfig
    /\ wf_pc = "off"
    /\ wf_folds = <<>>
    /\ wf_i = 0
    /\ wf_model = None
    /\ wf_fits = <<>>
    /\ wf_preds = <<>>
    /\ wf_mets = <<>>
    /\ wf_read = NoRead
    /\ wf_completed = 0
    /\ wf_results = <<>>
    /\ results_ = <<>>
    /\ wf_exc = "none"
    /\ wf_calls = 0
    /\ wf_before = <<>>
    /\ wf_last = None
    /\ bt_cfg = IdleBacktestConfig
    /\ bt_pc = "off"
    /\ bt_i = 0
    /\ bt_a = IdleRun
    /\ bt_b = IdleRun
    /\ bt_runs = 0
    /\ bt_results_ = None
    /\ bt_returned = <<>>
    /\ bt_read = NoRead
    /\ cv_cfg = IdleSplitterConfig
    /\ cv_n = 0
    /\ cv_pc = "off"
    /\ cv_runs = <<>>
    /\ cv_count = None
    /\ fx_pc = "args"
    /\ fx_args \in MaxDrawdownCalls \cup SharpeRatioCalls \cup SizerCalls
                   \cup ForecastSummaryCalls
    /\ fx_ret = <<>>

MetricsNext == CallMaxDrawdown \/ CallSharpeRatio \/ CallSizer \/ CallForecastSummary
SpecMetrics == MetricsInit /\ [][MetricsNext]_vars

-----------------------------------------------------------------------------
(* BACKTESTER: summary()                                                    *)

(* `self.results_ is None`                                                  *)
NoBacktest(results) == results = None

(* A variant of TotalTrades that counts every step of the run.              *)
TotalTradesEveryStep(table) == Len(table.trade)

(* self.results_['trades'].sum()                                            *)
RECURSIVE SumFlags(_)
SumFlags(flags) == IF flags = <<>> THEN 0 ELSE Head(flags) + SumFlags(Tail(flags))
TotalTrades(table) == SumFlags(table.trade)

(* np.mean(returns > 0)                                                     *)
PositiveShare(returns) ==
    RDiv(R(Cardinality({u \in 1..Len(returns) : RLess(R(0), returns[u])})),
         R(Len(returns)))

(* A statistic whose value is not rational (a root or a power), kept as the *)
(* function applied and the column it is applied to.                        *)
Statistic(function, column) == [fn |-> function, of |-> column]

SummaryKeys ==
    {"Total Return (%)", "Annual Return (%)", "Annual Volatility (%)", "Sharpe Ratio",
     "Sortino Ratio", "Max Drawdown (%)", "Win Rate (%)", "Profit Factor",
     "Total Trades", "Final Equity"}

(* The dict Backtester.summary() builds from the stored results table.      *)
SummaryDict(table) ==
    LET equity == table.equity
        returns == table.returns
        growth == RDiv(equity[Len(equity)], equity[1])
    IN  [k \in SummaryKeys |->
            CASE k = "Total Return (%)" -> RMul(RSub(growth, R(1)), R(100))
              [] k = "Annual Return (%)" ->
                     Statistic("(growth ** (252 / len(equity)) - 1) * 100", equity)
              [] k = "Annual Volatility (%)" ->
                     Statistic("np.std * np.sqrt(252) * 100", returns)
              [] k = "Sharpe Ratio" -> Statistic("sharpe_ratio", returns)
              [] k = "Sortino Ratio" -> Statistic("sortino_ratio", returns)
              [] k = "Max Drawdown (%)" -> RMul(max_drawdown(equity)[1], R(100))
              [] k = "Win Rate (%)" -> RMul(PositiveShare(returns), R(100))
              [] k = "Profit Factor" -> Statistic("profit_factor", returns)
              [] k = "Total Trades" -> R(TotalTrades(table))
              [] OTHER -> equity[Len(equity)]]

(* Backtester.summary() on backtester A, outside run().                     *)
BacktestSummary ==
    /\ bt_pc \in {"idle", "done"}
    /\ bt_read' = IF NoBacktest(bt_results_)
                  THEN [op |-> "summary", raised |-> TRUE, value |-> <<>>]
                  ELSE [op |-> "summary", raised |-> FALSE,
                        value |-> SummaryDict(TheValue(bt_results_))]
    /\ UNCHANGED <<bt_cfg, bt_pc, bt_i, bt_a, bt_b, bt_runs, bt_results_, bt_returned,
                   spVars, wfVars, cvVars, fxVars>>

(* A further run() call on the same instances with other signals, up to the *)
(* loop.                                                                    *)
RunOther ==
    /\ bt_pc = "done"
    /\ bt_runs < MaxRuns
    /\ \E s \in {-1, 0, 1} :
          LET signals == [u \in 1..Len(bt_cfg.prices) |-> s]
          IN  /\ bt_a' = InitRun(signals, bt_a.slippage, Len(bt_cfg.prices),
                                 StartingCapital(bt_cfg.initial_capital, bt_results_))
              /\ bt_b' = InitRun(signals, bt_b.slippage, Len(bt_cfg.prices),
                                 bt_cfg.initial_capital)
    /\ bt_i' = 1
    /\ bt_pc' = AfterWriting(1, Len(bt_cfg.prices))
    /\ bt_runs' = bt_runs + 1
    /\ bt_results_' = StoredAfterWriting(1, bt_a', bt_cfg, bt_results_)
    /\ bt_returned' = ReturnedAfterWriting(1, bt_a', bt_cfg, bt_returned)
    /\ bt_read' = NoRead
    /\ UNCHANGED <<bt_cfg, spVars, wfVars, cvVars, fxVars>>

(* SpecSummary: Backtester.__init__, run() calls with the first signals and *)
(* then with other signals, and summary() calls in between.                 *)
SummaryInit ==
    /\ sp_pc = "off"
    /\ sp_fn = "none"
    /\ sp_args = IdleSplitArgs
    /\ sp_ret = <<>>
    /\ wf_cfg = IdleValidatorConfig
    /\ wf_pc = "off"
    /\ wf_folds = <<>>
    /\ wf_i = 0
    /\ wf_model = None
    /\ wf_fits = <<>>
    /\ wf_preds = <<>>
    /\ wf_mets = <<>>
    /\ wf_read = NoRead
    /\ wf_completed = 0
    /\ wf_results = <<>>
    /\ results_ = <<>>
    /\ wf_exc = "none"
    /\ wf_calls = 0
    /\ wf_before = <<>>
    /\ wf_last = None
    /\ bt_cfg \in [prices : [1..NumBars -> {1, 2}],
                   max_position : {<<1, 2>>, R(1)},
                   sizer : {"default"},
                   transaction_cost : {R(0), <<1, 10>>},
                   initial_capital : {R(100)}]
    /\ bt_pc = "idle"
    /\ bt_i = 0
    /\ \E signals \in [1..NumBars -> {-1, 0, 1}] :
          /\ bt_a = InitRun(signals, R(0), 0, R(0))
          /\ bt_b = InitRun(signals, R(0), 0, R(0))
    /\ bt_runs = 0
    /\ bt_results_ = None
    /\ bt_returned = <<>>
    /\ bt_read = NoRead
    /\ cv_cfg = IdleSplitterConfig
    /\ cv_n = 0
    /\ cv_pc = "off"
    /\ cv_runs = <<>>
    /\ cv_count = None
    /\ fx_pc = "off"
    /\ fx_args = IdleCall
    /\ fx_ret = <<>>

SummaryNext == RunStart \/ RunStep \/ RunOther \/ BacktestSummary
SpecSummary == SummaryInit /\ [][SummaryNext]_vars

(* C21: Backtester.summary() raises exactly when no run() has completed;    *)
(* otherwise it returns the ten entries, computed from the table of the     *)
(* most recent completed run, with Total Trades the number of steps whose   *)
(* trade flag is set and Final Equity the last equity value.                *)
C21_SummaryOfLastRun ==
    bt_read.op = "summary" =>
        /\ bt_read.raised <=> Len(bt_returned) = 0
        /\ ~bt_read.raised =>
              LET last == bt_returned[Len(bt_returned)]
                  n == Len(last.equity)
              IN  /\ DOMAIN bt_read.value = SummaryKeys
                  /\ Cardinality(SummaryKeys) = 10
                  /\ bt_read.value["Total Trades"]
                        = R(Cardinality({u \in 1..n : last.trade[u] = 1}))
                  /\ bt_read.value["Final Equity"] = last.equity[n]
                  /\ bt_read.value = SummaryDict(last)

(* summary() was read after a second run whose table differs from the       *)
(* first run's: it reports the second run's trades and final equity.        *)
C21_Witness ==
    /\ bt_read.op = "summary"
    /\ ~bt_read.raised
    /\ Len(bt_returned) = 2
    /\ bt_returned[1].equity[NumBars] # bt_returned[2].equity[NumBars]
    /\ Cardinality({u \in 1..NumBars : bt_returned[1].trade[u] = 1}) = 2
    /\ bt_read.value["Total Trades"] = R(1)
    /\ bt_read.value["Final Equity"] = bt_returned[2].equity[NumBars]

-----------------------------------------------------------------------------
(* The largest value of equity_curve[0..t], t 0-based.                      *)
PrefixPeak(curve, t) ==
    CHOOSE m \in {curve[u] : u \in 1..(t + 1)} : \A u \in 1..(t + 1) : RLeq(curve[u], m)
(* The fall at t from the largest value so far, as a fraction of it.        *)
FallAt(curve, t) == RDiv(RSub(PrefixPeak(curve, t), curve[t + 1]), PrefixPeak(curve, t))

(* C22: max_drawdown returns (d, peak, trough): d is the largest fall from  *)
(* the running peak, as a fraction of it; trough is the first index with    *)
(* that fall; peak is the index of the largest value up to the trough. The  *)
(* curve [100, 120, 90, 95, 130] gives (0.25, 1, 2), and a curve of fewer   *)
(* than 2 values gives (0, 0, 0).                                           *)
C22_MaxDrawdownTriple ==
    (fx_pc = "returned" /\ fx_args.fn = "max_drawdown") =>
        LET curve == fx_args.equity_curve
            d == fx_ret[1]
            peak == fx_ret[2]
            trough == fx_ret[3]
            last == Len(curve) - 1
        IN  /\ Len(curve) < 2 => fx_ret = <<R(0), 0, 0>>
            /\ Len(curve) >= 2 =>
                  /\ trough \in 0..last
                  /\ d = FallAt(curve, trough)
                  /\ \A t \in 0..last : RLeq(FallAt(curve, t), d)
                  /\ \A t \in 0..(trough - 1) : RLess(FallAt(curve, t), d)
                  /\ peak \in 0..trough
                  /\ \A t \in 0..trough : RLeq(curve[t + 1], curve[peak + 1])
            /\ curve = <<R(100), R(120), R(90), R(95), R(130)>> => fx_ret = <<<<1, 4>>, 1, 2>>

(* The example curve was evaluated, and so was a curve whose highest value  *)
(* comes after its deepest fall.                                            *)
C22_Witness ==
    /\ fx_pc = "returned"
    /\ fx_args.fn = "max_drawdown"
    /\ fx_args.equity_curve = <<R(100), R(120), R(90), R(95), R(130)>>
    /\ fx_ret = <<<<1, 4>>, 1, 2>>


IsNumber(x) == ~IsNaN(x)

(* C23: sharpe_ratio returns without raising: NaN for fewer than 2 non-NaN  *)
(* returns; 0.0 for at least 2 returns without spread (all-zero series      *)
(* included); otherwise mean(returns - risk_free_rate / periods_per_year)   *)
(* / std(returns) * sqrt(periods_per_year).                                 *)
C23_SharpeRatio ==
    (fx_pc # "args" /\ fx_args.fn = "sharpe_ratio") =>
        LET kept == SelectSeq(fx_args.returns, IsNumber)
            n == Len(kept)
            mean == RDiv(RSum(kept), R(n))
            mean_square == RDiv(RSum([t \in 1..n |-> RMul(kept[t], kept[t])]), R(n))
            per_period == RDiv(fx_args.risk_free_rate, R(fx_args.periods_per_year))
            spread == \E t, u \in 1..n : kept[t] # kept[u]
        IN  /\ fx_pc = "returned"
            /\ n < 2 => fx_ret = Float(NaN)
            /\ (n >= 2 /\ ~spread) => fx_ret = Float(R(0))
            /\ (n >= 2 /\ spread) =>
                  fx_ret = Annualised(RSub(mean, per_period),
                                      RSub(mean_square, RMul(mean, mean)),
                                      fx_args.periods_per_year)

(* A series with a NaN and two returns of different size, at a risk-free    *)
(* rate of 5% a year, gave the annualised ratio of its two kept returns.    *)
C23_Witness ==
    /\ fx_pc = "returned"
    /\ fx_args.fn = "sharpe_ratio"
    /\ fx_args.returns = <<<<1, 10>>, NaN, <<-1, 10>>>>
    /\ fx_args.risk_free_rate = <<1, 20>>
    /\ fx_args.periods_per_year = 252
    /\ fx_ret = Annualised(<<-1, 5040>>, <<1, 100>>, 252)


(* base + (confidence - threshold) / (1 - threshold) * (1 - base)           *)
ScaledSize(c) ==
    RAdd(c.base_position,
         RMul(RDiv(RSub(c.confidence, c.confidence_threshold),
                   RSub(R(1), c.confidence_threshold)),
              RSub(R(1), c.base_position)))
InUnitRange(x) == RLeq(R(0), x) /\ RLeq(x, R(1))

Reported == {fx_ret[k].Metric : k \in 1..Len(fx_ret)}

(* C25: forecast_summary always reports MAE, RMSE, MAPE and SMAPE; MASE     *)
(* exactly when training_actual is given; CRPS and Calibration Error        *)
(* exactly when samples are given; Coverage, Interval Width and Winkler     *)
(* Score exactly when both lower and upper are given; and nothing else.     *)
C25_MetricsFollowInputs ==
    (fx_pc = "returned" /\ fx_args.fn = "forecast_summary") =>
        /\ {"MAE", "RMSE", "MAPE", "SMAPE"} \subseteq Reported
        /\ "MASE" \in Reported <=> fx_args.training_actual # None
        /\ \A m \in {"CRPS", "Calibration Error"} :
               m \in Reported <=> fx_args.samples # None
        /\ \A m \in {"Coverage (%)", "Interval Width", "Winkler Score"} :
               m \in Reported <=> (fx_args.lower # None /\ fx_args.upper # None)
        /\ Reported \subseteq {"MAE", "RMSE", "MAPE", "SMAPE", "MASE", "CRPS",
                               "Calibration Error", "Coverage (%)", "Interval Width",
                               "Winkler Score"}
        /\ Cardinality(Reported) = Len(fx_ret)

(* A call with samples and only a lower bound reported the sample metrics   *)
(* and none of the interval metrics.                                        *)
C25_Witness ==
    /\ fx_pc = "returned"
    /\ fx_args.fn = "forecast_summary"
    /\ fx_args.samples # None
    /\ fx_args.lower # None
    /\ fx_args.upper = None
    /\ fx_args.training_actual = None
    /\ Reported = {"MAE", "RMSE", "MAPE", "SMAPE", "CRPS", "Calibration Error"}


(* validate() has ended because fit_func or predict_func raised.            *)
AbortedByCaller == wf_pc = "raised" /\ wf_exc \in {"FitError", "PredictError"}

(* C29: when validate() aborts because fit_func or predict_func raised,     *)
(* results_ is what it was when the call began; summary() and               *)
(* get_all_predictions() afterwards raise if no earlier call returned, and  *)
(* otherwise report what the last call that returned has returned.          *)
C29_AbortLeavesStoredResults ==
    AbortedByCaller =>
        /\ results_ = wf_before
        /\ wf_completed = 0 => results_ = <<>>
        /\ wf_read.op # "none" =>
              IF wf_completed = 0
              THEN wf_read.raised
              ELSE /\ ~wf_read.raised
                   /\ wf_read.op = "summary" =>
                         wf_read.value = SummaryTable(TheValue(wf_last))
                   /\ wf_read.op = "get_all_predictions" =>
                         wf_read.value = Concat(PredictionBlocks(TheValue(wf_last)))

(* A second validate() call aborted in its second fold, after a first fold  *)
(* that went through, and summary() still reports the first call's folds.   *)
C29_Witness ==
    /\ AbortedByCaller
    /\ wf_calls = 2
    /\ wf_completed = 1
    /\ wf_i = 1
    /\ Len(wf_results) = 1
    /\ Len(results_) = 2
    /\ results_ = TheValue(wf_last)
    /\ wf_read.op = "summary"
    /\ ~wf_read.raised

(* C30: results_ always holds exactly what the most recent validate() call  *)
(* that returned normally has returned (nothing before the first such       *)
(* call); that collection is one FoldResult per fold of that call, never    *)
(* more than n_folds of them, and is validate's return value.               *)
C30_StoredIsLastReturned ==
    /\ results_ = (IF wf_last = None THEN <<>> ELSE TheValue(wf_last))
    /\ wf_completed = 0 <=> wf_last = None
    /\ Len(results_) <= wf_cfg.n_folds
    /\ wf_pc = "returned" =>
          /\ wf_last = Some(wf_results)
          /\ results_ = wf_results
          /\ Len(results_) = Len(wf_folds)
          /\ \A j \in 1..Len(wf_folds) :
                /\ results_[j].fold_id = j - 1
                /\ results_[j].predictions = wf_folds[j].test

(* A second validate() call, on data of another length, returned: the       *)
(* stored results are its own and differ from the first call's.             *)
C30_Witness ==
    /\ wf_pc = "returned"
    /\ wf_calls = 2
    /\ wf_completed = 2
    /\ Len(results_) = 2
    /\ results_ # wf_before
    /\ Len(wf_before) = 2

=============================================================================
